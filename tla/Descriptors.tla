---------------------------- MODULE Descriptors ----------------------------
(***************************************************************************)
(* Pool messages over a ring: the PoolRegistry of descriptors, composed    *)
(* with a v1 pool (PoolStacks) and with an SPSC v0 or v2 ring              *)
(* (SpscGuards) that carries the descriptors.                              *)
(*                                                                         *)
(* A sender allocates a buffer, writes it, turns the guard into a          *)
(* descriptor with to_desc and sends that; a receiver copies the           *)
(* descriptor out of the ring, releases the slot, turns it back into a     *)
(* guard with to_slot or to_slot_bytes and frees the buffer.  The only     *)
(* thing that owns the buffer in between is the descriptor.                *)
(*                                                                         *)
(* A message is its type-tag, which is the size of its type, and is        *)
(* written in the buffer's first word, where a free buffer has its link.   *)
(* `sent` is history: the tag its sender wrote in a buffer.                *)
(***************************************************************************)
EXTENDS SpscGuards, PoolStacks, FiniteSets

CONSTANTS R,        \* capacity of the registry
          NoBuf     \* a thread that holds no guard

ASSUME RegistryAssumption == R \in Nat \ {0} /\ NoBuf \notin Buffers

VARIABLES
    views,               \* the registered views, dense from id 0
    spc, sbuf, ssize, sdesc,   \* the sending thread
    rpc, rbuf, rdesc,          \* the receiving thread
    sent

registry == <<views>>
sendVars == <<spc, sbuf, ssize, sdesc>>
recvVars == <<rpc, rbuf, rdesc>>
vars == <<ringVars, poolVars, registry, sendVars, recvVars, sent>>

\* Desc: the pool's id and the buffer's index in the pool.
Total  == Cardinality(Buffers)
Descs  == [lo : 0 .. R - 1, hi : 0 .. Total - 1]
NoDesc == [lo |-> R, hi |-> Total]

Init ==
    /\ RingInit /\ PoolInit
    /\ views = <<>>
    /\ spc = "setup" /\ sbuf = NoBuf /\ ssize = 0 /\ sdesc = NoDesc
    /\ rpc = "recv" /\ rbuf = NoBuf /\ rdesc = NoDesc
    /\ sent = [b \in Buffers |-> 0]

-----------------------------------------------------------------------------
(* The registry.                                                           *)

\* register, in the setup phase: the next id is the view's.  A full table
\* changes nothing.  The two views are this pool's and another pool's.
register(v) ==
    /\ spc = "setup" /\ Len(views) < R /\ v \notin Range(views)
    /\ views' = Append(views, v)
    /\ UNCHANGED <<ringVars, poolVars, sendVars, recvVars, sent>>

\* The registry is shared by reference from here on.
SetupDone ==
    /\ spc = "setup" /\ Len(views) = R
    /\ spc' = "idle"
    /\ UNCHANGED <<ringVars, poolVars, registry, sbuf, ssize, sdesc, recvVars, sent>>

\* get: the view under a raw id, or none.
get(id) == IF id < Len(views) THEN views[id + 1] ELSE "none"

\* to_desc: the guard is consumed into its descriptor.  With the id of no view
\* (UnknownPoolId) or of another pool's (WrongPool) the guard is handed back,
\* and nothing has changed.
to_desc(id) ==
    /\ spc = "written" /\ get(id) = "pool"
    /\ spc' = "send"
    /\ sdesc' = [lo |-> id, hi |-> desc_idx(sbuf)]
    /\ guard' = [guard EXCEPT ![sbuf] = "flight"]
    /\ sbuf' = NoBuf /\ ssize' = 0
    /\ UNCHANGED <<heads, link, seen, allocVars, stack, ringVars, registry, recvVars, sent>>

\* Mint the guard of the buffer a received descriptor names, or fail with
\* UnknownPoolId or BadIndex: the buffer is then lost to its pool.
Mint ==
    IF get(rdesc.lo) = "pool" /\ Located(rdesc.hi)
    THEN /\ rpc' = "taken" /\ rbuf' = locate(rdesc.hi) /\ rdesc' = NoDesc
         /\ guard' = [guard EXCEPT ![locate(rdesc.hi)] = "held"]
    ELSE rpc' = "failed" /\ UNCHANGED <<rbuf, rdesc, guard>>

\* to_slot::<T>: refused with BadType if T, of `size` bytes, does not fit; the
\* descriptor is then still the owner.
to_slot(size) ==
    /\ rpc = "take" /\ (Located(rdesc.hi) => Fits(locate(rdesc.hi), size))
    /\ Mint
    /\ UNCHANGED <<heads, link, seen, allocVars, stack, ringVars, registry, sendVars, sent>>

to_slot_bytes ==
    /\ rpc = "take"
    /\ Mint
    /\ UNCHANGED <<heads, link, seen, allocVars, stack, ringVars, registry, sendVars, sent>>

\* into_typed on the byte guard, for the type its tag names: typed if it fits,
\* the byte guard handed back if not.
into_typed ==
    /\ rpc = "taken"
    /\ rpc' = IF link[rbuf] \in Sizes /\ Fits(rbuf, link[rbuf]) THEN "typed" ELSE "failed"
    /\ UNCHANGED <<ringVars, poolVars, registry, sendVars, rbuf, rdesc, sent>>

-----------------------------------------------------------------------------
(* The sending thread.                                                     *)

\* Ask for a buffer for a message of `size` bytes.
SenderAlloc(size) ==
    /\ spc = "idle" /\ AllocSized(size)
    /\ spc' = "alloc" /\ ssize' = size
    /\ UNCHANGED <<ringVars, registry, sbuf, sdesc, recvVars, sent>>

SenderPops ==
    /\ AllocNext
    /\ spc' = IF apc' = "idle" THEN "idle" ELSE spc
    /\ ssize' = IF apc' = "idle" THEN 0 ELSE ssize
    /\ UNCHANGED <<ringVars, registry, sbuf, sdesc, recvVars, sent>>

SenderServed ==
    /\ \E b \in Buffers : Served(b) /\ sbuf' = b
    /\ spc' = "fill"
    /\ UNCHANGED <<ringVars, registry, ssize, sdesc, recvVars, sent>>

\* Write the message, its type-tag first.
SenderWrites ==
    /\ spc = "fill"
    /\ Write(sbuf, ssize)
    /\ spc' = "written"
    /\ sent' = [sent EXCEPT ![sbuf] = ssize]
    /\ UNCHANGED <<ringVars, registry, sbuf, ssize, sdesc, recvVars>>

\* With the guard handed back, or instead of sending: free it here.
SenderFrees ==
    /\ spc \in {"written", "freeing"} /\ FreeNext(sbuf)
    /\ IF guard'[sbuf] = "free"
       THEN spc' = "idle" /\ sbuf' = NoBuf /\ ssize' = 0
       ELSE spc' = "freeing" /\ UNCHANGED <<sbuf, ssize>>
    /\ sent' = [sent EXCEPT ![sbuf] = 0]
    /\ UNCHANGED <<ringVars, registry, sdesc, recvVars>>

\* Send the descriptor: reserve, write, and commit, again until it is done.
\* The assignment of a descriptor runs to its end before a guard is dropped.
SendSteps ==
    \/ reserve_write0 \/ reserve_write2 \/ FillLo(sdesc) \/ FillHi(sdesc) \/ Commit2Idx
    \/ ppc = "filled" /\ AbandonWrite

Sending ==
    /\ spc = "send" /\ SendSteps
    /\ UNCHANGED <<poolVars, registry, sendVars, recvVars, sent>>

Sent ==
    /\ spc = "send" /\ (Commit0 \/ Commit2Seq)
    /\ spc' = "idle" /\ sdesc' = NoDesc
    /\ UNCHANGED <<poolVars, registry, sbuf, ssize, recvVars, sent>>

-----------------------------------------------------------------------------
(* The receiving thread.                                                   *)

RecvSteps ==
    \/ reserve_read0 \/ reserve_read2 \/ ReadLo \/ ReadHi \/ Release2Idx
    \/ cpc = "read" /\ DropRead

Receiving ==
    /\ rpc = "recv" /\ RecvSteps
    /\ UNCHANGED <<poolVars, registry, sendVars, recvVars, sent>>

\* Fault: the descriptor is copied out and the slot dropped, not released.
ReceivedKeeps ==
    /\ rpc = "recv" /\ cpc = "read" /\ DropRead
    /\ rpc' = "take" /\ rdesc' = got
    /\ UNCHANGED <<poolVars, registry, sendVars, rbuf, sent>>

\* The descriptor was copied out of the slot, which is then released.
Received ==
    /\ rpc = "recv" /\ (Release0 \/ Release2Seq)
    /\ rpc' = "take" /\ rdesc' = got
    /\ UNCHANGED <<poolVars, registry, sendVars, rbuf, sent>>

ReceiverFrees ==
    /\ rpc \in {"taken", "typed", "freeing"} /\ FreeNext(rbuf)
    /\ IF guard'[rbuf] = "free"
       THEN rpc' = "recv" /\ rbuf' = NoBuf
       ELSE rpc' = "freeing" /\ UNCHANGED rbuf
    /\ sent' = [sent EXCEPT ![rbuf] = 0]
    /\ UNCHANGED <<ringVars, registry, sendVars, rdesc>>

\* The guard is dropped without free.
ReceiverLeaks ==
    /\ rpc \in {"taken", "typed"} /\ Leak(rbuf)
    /\ rpc' = "recv" /\ rbuf' = NoBuf
    /\ sent' = [sent EXCEPT ![rbuf] = 0]
    /\ UNCHANGED <<ringVars, registry, sendVars, rdesc>>

-----------------------------------------------------------------------------
SenderNext ==
    \/ \E size \in Sizes : SenderAlloc(size)
    \/ SenderPops \/ SenderServed \/ SenderWrites \/ SenderFrees
    \/ \E id \in 0 .. R - 1 : to_desc(id)
    \/ Sending \/ Sent

ReceiverNext ==
    \/ Receiving \/ Received
    \/ \E size \in Sizes : to_slot(size)
    \/ to_slot_bytes \/ into_typed \/ ReceiverFrees \/ ReceiverLeaks

Next ==
    \/ \E v \in {"pool", "other"} : register(v)
    \/ SetupDone \/ SenderNext \/ ReceiverNext

Spec == Init /\ [][Next]_vars

-----------------------------------------------------------------------------
(* Properties.                                                             *)

Names(d, b) == d.hi = desc_idx(b)

Copies(b) ==
    (IF Names(sdesc, b) THEN 1 ELSE 0) + (IF Names(rdesc, b) THEN 1 ELSE 0)
        + Cardinality({k \in 1 .. Len(Queued) : Names(Queued[k], b)})

Holders(b) ==
    (IF sbuf = b THEN 1 ELSE 0) + (IF rbuf = b THEN 1 ELSE 0)
        + (IF apc = "served" /\ Here(ahead) = b THEN 1 ELSE 0)

\* to_desc and to_slot hand the ownership over whole: at every instant a buffer
\* is free, or has one guard, or is named by one descriptor on its way.
OneOwner ==
    \A b \in Buffers :
        /\ Copies(b) = IF guard[b] = "flight" THEN 1 ELSE 0
        /\ Holders(b) = IF guard[b] \in {"free", "flight", "leaked"} THEN 0 ELSE 1

\* The guard a descriptor is turned back into is over the buffer it was made
\* from, whichever stack served it, with what the sender wrote there, and the
\* message's type fits; taking it back never fails.
TakenBackIntact ==
    /\ rpc # "failed"
    /\ rpc \in {"taken", "typed"} =>
         rbuf \in Buffers /\ link[rbuf] = sent[rbuf] /\ Fits(rbuf, sent[rbuf])

=============================================================================
