--------------------------- MODULE SpscTakeover ----------------------------
(***************************************************************************)
(* The SPSC v4 ring: SpscSegments' ring with roles that outlive their      *)
(* holders.  A switch writes its side's checkpoint into the region under   *)
(* an intent word, release() adds the position, and a claim of a released  *)
(* role, or the takeover of a dead holder's, loads the state back: from    *)
(* the stored position, by finishing or undoing the switch the holder died *)
(* in, or by a scan of one segment's words beside a live peer.             *)
(*                                                                         *)
(* A holder may die between any two of its shared stores, and so may its   *)
(* successor while it repairs.  A takeover happens only when the holder is *)
(* dead, which is its caller's duty.  Words the dead side alone writes are *)
(* stable, so loading them is one step; the words scanned are loaded one   *)
(* by one.                                                                 *)
(*                                                                         *)
(* Positions are kept modulo W, where `lift` is the identity.  Masks are   *)
(* sets, words are records, and a message is one value: SpscSegments shows *)
(* what concerns torn reads.  `chain` and `tailAt` are history, read by no *)
(* action.                                                                 *)
(***************************************************************************)
EXTENDS Integers, Sequences, FiniteSetsExt

CONSTANTS M,          \* seg_capacity: slots per segment
          W,          \* the number of seq values, 2^SEQ_BITS
          seg_count,
          Msg, NoMsg,
          NoSeg,      \* a word without MOVED
          NoSwitch,   \* a clear intent word
          MaxDeaths   \* bound: holders that die in a run

\* MAX_SEG_CAPACITY is a quarter of the seq values.
ASSUME GeometryAssumption ==
    /\ M \in Nat \ {0} /\ seg_count \in Nat \ {0}
    /\ W \in Nat /\ W % M = 0 /\ 4 * M <= W
    /\ NoMsg \notin Msg /\ NoSeg \notin 0 .. seg_count - 1
    /\ MaxDeaths \in Nat

Segs   == 0 .. seg_count - 1
Slots  == 0 .. M - 1
Seqs   == 0 .. W - 1

\* A switch as its intent word tells it; the flag in the word tells a set one
\* from a clear one.
Intents == [from : Segs, to : Segs, bit : BOOLEAN]
ASSUME IntentAssumption == NoSwitch \notin Intents

VARIABLES
    word, buf,                 \* every slot's word and message, per segment
    given,                     \* the give-back word
    \* the claims line and the info lines: roles and checkpoints
    prod_role, prod_cur, prod_pos, prod_taken, prod_switch, prod_resume,
    cons_role, cons_cur, cons_pos, cons_switch, cons_resume,
    \* a live holder: where it is, its ProducerState or ConsumerState, the
    \* segment a commit goes to or the word a guard loaded, the scan's loads
    ppc, pst, to, pscan,
    cpc, cst, rword, got, cscan,
    scans,                     \* each side's scans that found no window
    deaths,                    \* holders that died so far
    chain,                     \* history: committed, unreleased slots
    tailAt                     \* history: where the next message will go

slotVars == <<word, buf>>
prodCp   == <<prod_role, prod_cur, prod_pos, prod_taken, prod_switch, prod_resume>>
consCp   == <<cons_role, cons_cur, cons_pos, cons_switch, cons_resume, given>>
prodVars == <<prodCp, ppc, pst, to, pscan>>
consVars == <<consCp, cpc, cst, rword, got, cscan>>
history  == <<chain, tailAt>>
counts   == <<scans, deaths>>
vars     == <<slotVars, prodVars, consVars, history, counts>>

seq_of(n) == n % W
Slot(n)   == n % M

Plain(n)     == [seq |-> seq_of(n), moved |-> NoSeg]
Claimable(p) == Plain(p)
Committed(p) == Plain(p + M + 1)
Released(p)  == Plain(p + M)
At(s, n)     == [seg |-> s, pos |-> seq_of(n)]

Flip(mask, s)      == SymDiff(mask, {s})
SetBit(mask, s, b) == IF b THEN mask \cup {s} ELSE mask \ {s}

switch_intent(f, t, b) == [from |-> f, to |-> t, bit |-> b]

\* Producer::new and Consumer::new.
NewProducer == [cur |-> 0, pos |-> 0, resume |-> [s \in Segs |-> 0],
                taken |-> {0}, claimable |-> FALSE]
NewConsumer == [cur |-> 0, pos |-> 0, resume |-> [s \in Segs |-> 0], given |-> {}]

\* Ring::init.
Init ==
    /\ word = [s \in Segs |-> [i \in Slots |-> Claimable(i)]]
    /\ buf = [s \in Segs |-> [i \in Slots |-> NoMsg]]
    /\ given = {}
    /\ prod_role = "free" /\ prod_cur = 0 /\ prod_pos = 0 /\ prod_taken = {0}
    /\ prod_switch = NoSwitch /\ prod_resume = [s \in Segs |-> 0]
    /\ cons_role = "free" /\ cons_cur = 0 /\ cons_pos = 0
    /\ cons_switch = NoSwitch /\ cons_resume = [s \in Segs |-> 0]
    /\ ppc = "none" /\ pst = NewProducer /\ to = NoSeg /\ pscan = <<>>
    /\ cpc = "none" /\ cst = NewConsumer /\ rword = Plain(0) /\ got = NoMsg /\ cscan = <<>>
    /\ scans = [prod |-> 0, cons |-> 0] /\ deaths = 0
    /\ chain = <<>> /\ tailAt = At(0, 0)

-----------------------------------------------------------------------------
(* Producer::reserve_slot_with and WriteSlot.  A reservation that finds    *)
(* the slot taken changes nothing.                                         *)

WriteGuard ==
    /\ ppc = "idle"
    /\ pst.claimable \/ word[pst.cur][Slot(pst.pos)] = Claimable(pst.pos)
    /\ pst' = [pst EXCEPT !.claimable = TRUE]
    /\ ppc' = "filling"
    /\ UNCHANGED <<slotVars, prodCp, to, pscan, consVars, history, counts>>

Fill ==
    /\ ppc = "filling"
    /\ \E m \in Msg : buf' = [buf EXCEPT ![pst.cur][Slot(pst.pos)] = m]
    /\ ppc' = "filled"
    /\ UNCHANGED <<word, prodCp, pst, to, pscan, consVars, history, counts>>

AbandonWrite ==
    /\ ppc \in {"filling", "filled"}
    /\ ppc' = "idle"
    /\ UNCHANGED <<slotVars, prodCp, pst, to, pscan, consVars, history, counts>>

\* commit loads the next slot's word ...
CommitLook ==
    /\ ppc = "filled"
    /\ LET next == seq_of(pst.pos + 1)
           free == word[pst.cur][Slot(next)] = Claimable(next) IN
         /\ pst' = [pst EXCEPT !.pos = next, !.claimable = free]
         /\ ppc' = IF free THEN "publish" ELSE "pick"
    /\ UNCHANGED <<slotVars, prodCp, to, pscan, consVars, history, counts>>

FreeSegs == Segs \ SymDiff(pst.taken, given)

\* ... and, that one unread, the give-back word: the lowest free segment is
\* taken, or the message stays the last before a wait.
CommitPick ==
    /\ ppc = "pick"
    /\ IF FreeSegs = {}
       THEN ppc' = "publish" /\ UNCHANGED <<pst, to>>
       ELSE /\ to' = Min(FreeSegs)
            /\ pst' = [pst EXCEPT !.taken = Flip(@, Min(FreeSegs)),
                                  !.resume[pst.cur] = pst.pos]
            /\ ppc' = "store resume"
    /\ UNCHANGED <<slotVars, prodCp, pscan, consVars, history, counts>>

\* producer_switch: four stores ahead of the commit.
StoreProdResume ==
    /\ ppc = "store resume"
    /\ prod_resume' = [prod_resume EXCEPT ![pst.cur] = pst.pos]
    /\ ppc' = "store intent"
    /\ UNCHANGED <<slotVars, prod_role, prod_cur, prod_pos, prod_taken, prod_switch,
                   pst, to, pscan, consVars, history, counts>>

StoreProdIntent ==
    /\ ppc = "store intent"
    /\ prod_switch' = switch_intent(pst.cur, to, to \in pst.taken)
    /\ ppc' = "store taken"
    /\ UNCHANGED <<slotVars, prod_role, prod_cur, prod_pos, prod_taken, prod_resume,
                   pst, to, pscan, consVars, history, counts>>

StoreProdTaken ==
    /\ ppc = "store taken"
    /\ prod_taken' = pst.taken
    /\ ppc' = "store cur"
    /\ UNCHANGED <<slotVars, prod_role, prod_cur, prod_pos, prod_switch, prod_resume,
                   pst, to, pscan, consVars, history, counts>>

StoreProdCur ==
    /\ ppc = "store cur"
    /\ prod_cur' = to
    /\ ppc' = "publish"
    /\ UNCHANGED <<slotVars, prod_role, prod_pos, prod_taken, prod_switch, prod_resume,
                   pst, to, pscan, consVars, history, counts>>

\* The store of the slot's word, with MOVED after a switch.
CommitPublish ==
    /\ ppc = "publish"
    /\ LET p == seq_of(pst.pos - 1)
           next == IF to = NoSeg THEN At(pst.cur, pst.pos) ELSE At(to, pst.resume[to]) IN
         /\ word' = [word EXCEPT ![pst.cur][Slot(p)] = [Committed(p) EXCEPT !.moved = to]]
         /\ chain' = Append(chain, At(pst.cur, p))
         /\ tailAt' = next
         /\ pst' = [pst EXCEPT !.cur = next.seg, !.pos = next.pos]
    /\ ppc' = IF to = NoSeg THEN "idle" ELSE "switch done"
    /\ to' = NoSeg
    /\ UNCHANGED <<buf, prodCp, pscan, consVars, counts>>

\* The switch is over.  The entry of the segment in use is not read before the
\* next switch overwrites it, so the model forgets it.
ProdSwitchDone ==
    /\ ppc \in {"switch done", "repair done"}
    /\ prod_switch' = NoSwitch
    /\ ppc' = "idle"
    /\ prod_resume' = [prod_resume EXCEPT ![pst.cur] = 0]
    /\ pst' = [pst EXCEPT !.resume[pst.cur] = 0]
    /\ UNCHANGED <<slotVars, prod_role, prod_cur, prod_pos, prod_taken,
                   to, pscan, consVars, history, counts>>

-----------------------------------------------------------------------------
(* Segments::scan: one window of positions from the words of a segment.    *)

\* Slot i last held a position that is i modulo M, released or committed.
Unread(v) == {i \in Slots : v[i + 1] % M # i}
Placed(v) == \A i \in Slots : v[i + 1] % M \in {i, Slot(i + 1)}
LastPos(v, i) == seq_of(v[i + 1] - M - (IF i \in Unread(v) THEN 1 ELSE 0))

\* Fault: the difference is taken as unsigned.
OffsetUnsigned(v, i) == seq_of(LastPos(v, i) - LastPos(v, 0))

\* Offsets from slot 0's position, signed.
Offset(v, i) ==
    LET d == seq_of(LastPos(v, i) - LastPos(v, 0)) IN IF 2 * d >= W THEN d - W ELSE d
Offsets(v, S) == {Offset(v, i) : i \in S}

\* M positions in a row, of which the committed ones are the newest.
OneWindow(v) ==
    LET lo == Min(Offsets(v, Slots))
        hi == Max(Offsets(v, Slots)) IN
    /\ Placed(v)
    /\ hi - lo = M - 1
    /\ Unread(v) = {} \/ Min(Offsets(v, Unread(v))) = hi - Cardinality(Unread(v)) + 1

\* The end of the window, where the producer is ...
WindowEnd(v) == seq_of(LastPos(v, 0) + Min(Offsets(v, Slots)) + M)

\* ... and the first unread position in it.
FirstUnread(v) == seq_of(WindowEnd(v) - Cardinality(Unread(v)))

-----------------------------------------------------------------------------
(* Producer::release, death, and a successor's load_producer.              *)

StoreProdPos ==
    /\ ppc = "idle"
    /\ prod_pos' = pst.pos
    /\ ppc' = "release"
    /\ UNCHANGED <<slotVars, prod_role, prod_cur, prod_taken, prod_switch, prod_resume,
                   pst, to, pscan, consVars, history, counts>>

\* The holder is gone and with it its private state.
ProducerGone ==
    /\ ppc' = "none" /\ pst' = NewProducer /\ to' = NoSeg /\ pscan' = <<>>
    /\ scans' = [scans EXCEPT !.prod = 0]

ReleaseProducer ==
    /\ ppc = "release"
    /\ prod_role' = "released"
    /\ ProducerGone
    /\ UNCHANGED <<slotVars, prod_cur, prod_pos, prod_taken, prod_switch, prod_resume,
                   consVars, history, deaths>>

\* The process dies, or drops the endpoint: the role stays held.
ProducerDies ==
    /\ ppc # "none"
    /\ deaths < MaxDeaths
    /\ deaths' = deaths + 1
    /\ ProducerGone
    /\ UNCHANGED <<slotVars, prodCp, consVars, history>>

\* A role never claimed starts at the beginning.
ClaimProducer ==
    /\ ppc = "none" /\ prod_role = "free"
    /\ prod_role' = "held"
    /\ pst' = NewProducer
    /\ ppc' = "idle"
    /\ UNCHANGED <<slotVars, prod_cur, prod_pos, prod_taken, prod_switch, prod_resume,
                   to, pscan, consVars, history, counts>>

\* Fault: the successor trusts the slot as its predecessor did.
ResumeAsClaimable(cur, pos, taken) ==
    /\ pst' = [cur |-> cur, pos |-> pos, resume |-> prod_resume,
               taken |-> taken, claimable |-> TRUE]
    /\ prod_role' = "held"
    /\ prod_pos' = 0

\* Producer::resume.  The stored position is read of a released role only, so
\* the model forgets it once the role is held.
ResumeAs(cur, pos, taken) ==
    /\ pst' = [cur |-> cur, pos |-> pos, resume |-> prod_resume,
               taken |-> taken, claimable |-> FALSE]
    /\ prod_role' = "held"
    /\ prod_pos' = 0

\* A clear intent and a released role: continue at the stored position.
ReclaimProducer ==
    /\ ppc = "none" /\ prod_role = "released" /\ prod_switch = NoSwitch
    /\ ResumeAs(prod_cur, prod_pos, prod_taken)
    /\ ppc' = "idle"
    /\ UNCHANGED <<slotVars, prod_cur, prod_taken, prod_switch, prod_resume,
                   to, pscan, consVars, history, counts>>

\* Fault: a switch that was cut short is always finished.
RepairProducerFinishes ==
    /\ ppc = "none" /\ prod_role # "free" /\ prod_switch # NoSwitch
    /\ LET i == prod_switch IN
         ResumeAs(i.to, prod_resume[i.to], SetBit(prod_taken, i.to, i.bit))
    /\ ppc' = "repair taken"
    /\ UNCHANGED <<slotVars, prod_cur, prod_taken, prod_switch, prod_resume,
                   to, pscan, consVars, history, counts>>

\* A set intent: undo the switch if its slot is still claimable, else finish it.
RepairProducer ==
    /\ ppc = "none" /\ prod_role # "free" /\ prod_switch # NoSwitch
    /\ LET i == prod_switch
           p == seq_of(prod_resume[i.from] - 1) IN
         IF word[i.from][Slot(p)] = Claimable(p)
         THEN ResumeAs(i.from, p, SetBit(prod_taken, i.to, ~i.bit))
         ELSE ResumeAs(i.to, prod_resume[i.to], SetBit(prod_taken, i.to, i.bit))
    /\ ppc' = "repair taken"
    /\ UNCHANGED <<slotVars, prod_cur, prod_taken, prod_switch, prod_resume,
                   to, pscan, consVars, history, counts>>

RepairProdTaken ==
    /\ ppc = "repair taken"
    /\ prod_taken' = pst.taken
    /\ ppc' = "repair cur"
    /\ UNCHANGED <<slotVars, prod_role, prod_cur, prod_pos, prod_switch, prod_resume,
                   pst, to, pscan, consVars, history, counts>>

RepairProdCur ==
    /\ ppc = "repair cur"
    /\ prod_cur' = pst.cur
    /\ ppc' = "repair done"
    /\ UNCHANGED <<slotVars, prod_role, prod_pos, prod_taken, prod_switch, prod_resume,
                   pst, to, pscan, consVars, history, counts>>

\* A clear intent and a dead holder: scan the segment of the checkpoint.  At
\* depth 1 the words cannot place a position: BadCapacity, and no change.
ScanProducer ==
    /\ ppc = "none" /\ prod_role = "held" /\ prod_switch = NoSwitch
    /\ M >= 2
    /\ ResumeAs(prod_cur, 0, prod_taken)
    /\ ppc' = "scan"
    /\ UNCHANGED <<slotVars, prod_cur, prod_taken, prod_switch, prod_resume,
                   to, pscan, consVars, history, counts>>

ProdScanSlot ==
    /\ ppc = "scan" /\ Len(pscan) < M
    /\ pscan' = Append(pscan, word[pst.cur][Len(pscan)].seq)
    /\ UNCHANGED <<slotVars, prodCp, ppc, pst, to, consVars, history, counts>>

\* The words form one window, or the scan runs again.
ProdScanned ==
    /\ ppc = "scan" /\ Len(pscan) = M
    /\ IF OneWindow(pscan)
       THEN /\ pst' = [pst EXCEPT !.pos = WindowEnd(pscan)]
            /\ ppc' = "idle"
            /\ scans' = [scans EXCEPT !.prod = 0]
       ELSE /\ scans' = [scans EXCEPT !.prod = @ + 1]
            /\ UNCHANGED <<ppc, pst>>
    /\ pscan' = <<>>
    /\ UNCHANGED <<slotVars, prodCp, to, consVars, history, deaths>>

-----------------------------------------------------------------------------
(* Consumer::reserve_slot_with and ReadSlot.                               *)

ReadGuard ==
    /\ cpc = "idle"
    /\ LET r == word[cst.cur][Slot(cst.pos)] IN
         /\ r.seq = Committed(cst.pos).seq /\ r.moved \in Segs \cup {NoSeg}
         /\ rword' = r
    /\ cpc' = "reading"
    /\ UNCHANGED <<slotVars, prodVars, consCp, cst, got, cscan, history, counts>>

Read ==
    /\ cpc = "reading"
    /\ got' = buf[cst.cur][Slot(cst.pos)]
    /\ cpc' = "read"
    /\ UNCHANGED <<slotVars, prodVars, consCp, cst, rword, cscan, history, counts>>

DropRead ==
    /\ cpc \in {"reading", "read"}
    /\ got' = NoMsg
    /\ cpc' = "idle"
    /\ rword' = Plain(0)
    /\ UNCHANGED <<slotVars, prodVars, consCp, cst, cscan, history, counts>>

\* consumer_switch, of a MOVED message: three stores ahead of the release.
StoreConsResume ==
    /\ cpc = "read" /\ rword.moved # NoSeg
    /\ cst' = [cst EXCEPT !.given = Flip(@, cst.cur), !.resume[cst.cur] = seq_of(cst.pos + 1)]
    /\ cons_resume' = [cons_resume EXCEPT ![cst.cur] = seq_of(cst.pos + 1)]
    /\ cpc' = "store intent"
    /\ UNCHANGED <<slotVars, prodVars, cons_role, cons_cur, cons_pos, cons_switch, given,
                   rword, got, cscan, history, counts>>

StoreConsIntent ==
    /\ cpc = "store intent"
    /\ cons_switch' = switch_intent(cst.cur, rword.moved, cst.cur \in cst.given)
    /\ cpc' = "store cur"
    /\ UNCHANGED <<slotVars, prodVars, cons_role, cons_cur, cons_pos, cons_resume, given,
                   cst, rword, got, cscan, history, counts>>

StoreConsCur ==
    /\ cpc = "store cur"
    /\ cons_cur' = rword.moved
    /\ cpc' = "release seq"
    /\ UNCHANGED <<slotVars, prodVars, cons_role, cons_pos, cons_switch, cons_resume, given,
                   cst, rword, got, cscan, history, counts>>

\* The store of the released seq frees the slot.
ReleaseSeq ==
    /\ \/ cpc = "read" /\ rword.moved = NoSeg /\ cpc' = "idle"
       \/ cpc = "release seq" /\ cpc' = "give"
    /\ word' = [word EXCEPT ![cst.cur][Slot(cst.pos)] = Released(cst.pos)]
    /\ cst' = [cst EXCEPT !.pos = seq_of(@ + 1)]
    /\ rword' = IF cpc' = "idle" THEN Plain(0) ELSE rword
    /\ got' = NoMsg
    /\ chain' = Tail(chain)
    /\ UNCHANGED <<buf, prodVars, consCp, cscan, tailAt, counts>>

\* The give-back, and the segment the consumer goes on in.
GiveBack ==
    /\ cpc = "give"
    /\ given' = cst.given
    /\ cst' = [cst EXCEPT !.cur = rword.moved, !.pos = cst.resume[rword.moved]]
    /\ rword' = Plain(0)
    /\ cpc' = "switch done"
    /\ UNCHANGED <<slotVars, prodVars, cons_role, cons_cur, cons_pos, cons_switch, cons_resume,
                   got, cscan, history, counts>>

\* As of ProdSwitchDone, the entry of the segment in use is forgotten.
ConsSwitchDone ==
    /\ cpc \in {"switch done", "repair done"}
    /\ cons_switch' = NoSwitch
    /\ cpc' = "idle"
    /\ cons_resume' = [cons_resume EXCEPT ![cst.cur] = 0]
    /\ cst' = [cst EXCEPT !.resume[cst.cur] = 0]
    /\ UNCHANGED <<slotVars, prodVars, cons_role, cons_cur, cons_pos, given,
                   rword, got, cscan, history, counts>>

-----------------------------------------------------------------------------
(* Consumer::release, death, and a successor's load_consumer.              *)

StoreConsPos ==
    /\ cpc = "idle"
    /\ cons_pos' = cst.pos
    /\ cpc' = "release"
    /\ UNCHANGED <<slotVars, prodVars, cons_role, cons_cur, cons_switch, cons_resume, given,
                   cst, rword, got, cscan, history, counts>>

ConsumerGone ==
    /\ cpc' = "none" /\ cst' = NewConsumer /\ rword' = Plain(0) /\ got' = NoMsg /\ cscan' = <<>>
    /\ scans' = [scans EXCEPT !.cons = 0]

ReleaseConsumer ==
    /\ cpc = "release"
    /\ cons_role' = "released"
    /\ ConsumerGone
    /\ UNCHANGED <<slotVars, prodVars, cons_cur, cons_pos, cons_switch, cons_resume, given,
                   history, deaths>>

ConsumerDies ==
    /\ cpc # "none"
    /\ deaths < MaxDeaths
    /\ deaths' = deaths + 1
    /\ ConsumerGone
    /\ UNCHANGED <<slotVars, prodVars, consCp, history>>

ClaimConsumer ==
    /\ cpc = "none" /\ cons_role = "free"
    /\ cons_role' = "held"
    /\ cst' = NewConsumer
    /\ cpc' = "idle"
    /\ UNCHANGED <<slotVars, prodVars, cons_cur, cons_pos, cons_switch, cons_resume, given,
                   rword, got, cscan, history, counts>>

ResumeConsAs(cur, pos, mask) ==
    /\ cst' = [cur |-> cur, pos |-> pos, resume |-> cons_resume, given |-> mask]
    /\ cons_role' = "held"
    /\ cons_pos' = 0

ReclaimConsumer ==
    /\ cpc = "none" /\ cons_role = "released" /\ cons_switch = NoSwitch
    /\ ResumeConsAs(cons_cur, cons_pos, given)
    /\ cpc' = "idle"
    /\ UNCHANGED <<slotVars, prodVars, cons_cur, cons_switch, cons_resume, given,
                   rword, got, cscan, history, counts>>

\* Fault: the give-back the holder had yet to store is forgotten.
RepairConsumerKeepsBit ==
    /\ cpc = "none" /\ cons_role # "free" /\ cons_switch # NoSwitch
    /\ LET i == cons_switch
           m == seq_of(cons_resume[i.from] - 1) IN
         IF word[i.from][Slot(m)] = [Committed(m) EXCEPT !.moved = i.to]
         THEN ResumeConsAs(i.from, m, given)
         ELSE ResumeConsAs(i.to, cons_resume[i.to], given)
    /\ cpc' = "repair given"
    /\ UNCHANGED <<slotVars, prodVars, cons_cur, cons_switch, cons_resume, given,
                   rword, got, cscan, history, counts>>

\* A set intent: undo the switch if its slot still holds the MOVED commit.
RepairConsumer ==
    /\ cpc = "none" /\ cons_role # "free" /\ cons_switch # NoSwitch
    /\ LET i == cons_switch
           m == seq_of(cons_resume[i.from] - 1) IN
         IF word[i.from][Slot(m)] = [Committed(m) EXCEPT !.moved = i.to]
         THEN ResumeConsAs(i.from, m, SetBit(given, i.from, ~i.bit))
         ELSE ResumeConsAs(i.to, cons_resume[i.to], SetBit(given, i.from, i.bit))
    /\ cpc' = "repair given"
    /\ UNCHANGED <<slotVars, prodVars, cons_cur, cons_switch, cons_resume, given,
                   rword, got, cscan, history, counts>>

RepairGiven ==
    /\ cpc = "repair given"
    /\ given' = cst.given
    /\ cpc' = "repair cur"
    /\ UNCHANGED <<slotVars, prodVars, cons_role, cons_cur, cons_pos, cons_switch, cons_resume,
                   cst, rword, got, cscan, history, counts>>

RepairConsCur ==
    /\ cpc = "repair cur"
    /\ cons_cur' = cst.cur
    /\ cpc' = "repair done"
    /\ UNCHANGED <<slotVars, prodVars, cons_role, cons_pos, cons_switch, cons_resume, given,
                   cst, rword, got, cscan, history, counts>>

ScanConsumer ==
    /\ cpc = "none" /\ cons_role = "held" /\ cons_switch = NoSwitch
    /\ M >= 2
    /\ ResumeConsAs(cons_cur, 0, given)
    /\ cpc' = "scan"
    /\ UNCHANGED <<slotVars, prodVars, cons_cur, cons_switch, cons_resume, given,
                   rword, got, cscan, history, counts>>

ConsScanSlot ==
    /\ cpc = "scan" /\ Len(cscan) < M
    /\ cscan' = Append(cscan, word[cst.cur][Len(cscan)].seq)
    /\ UNCHANGED <<slotVars, prodVars, consCp, cpc, cst, rword, got, history, counts>>

ConsScanned ==
    /\ cpc = "scan" /\ Len(cscan) = M
    /\ IF OneWindow(cscan)
       THEN /\ cst' = [cst EXCEPT !.pos = FirstUnread(cscan)]
            /\ cpc' = "idle"
            /\ scans' = [scans EXCEPT !.cons = 0]
       ELSE /\ scans' = [scans EXCEPT !.cons = @ + 1]
            /\ UNCHANGED <<cpc, cst>>
    /\ cscan' = <<>>
    /\ UNCHANGED <<slotVars, prodVars, consCp, rword, got, history, deaths>>

-----------------------------------------------------------------------------
CommitNext ==
    \/ CommitLook \/ CommitPick \/ StoreProdResume \/ StoreProdIntent \/ StoreProdTaken
    \/ StoreProdCur \/ CommitPublish \/ ProdSwitchDone

ProdTakeNext ==
    \/ ReclaimProducer \/ RepairProducer \/ RepairProdTaken \/ RepairProdCur
    \/ ScanProducer \/ ProdScanSlot \/ ProdScanned

ProducerNext ==
    \/ ClaimProducer \/ WriteGuard \/ Fill \/ AbandonWrite \/ CommitNext
    \/ StoreProdPos \/ ReleaseProducer \/ ProducerDies \/ ProdTakeNext

ReleaseNext ==
    \/ StoreConsResume \/ StoreConsIntent \/ StoreConsCur \/ ReleaseSeq \/ GiveBack
    \/ ConsSwitchDone

ConsTakeNext ==
    \/ ReclaimConsumer \/ RepairConsumer \/ RepairGiven \/ RepairConsCur
    \/ ScanConsumer \/ ConsScanSlot \/ ConsScanned

ConsumerNext ==
    \/ ClaimConsumer \/ ReadGuard \/ Read \/ DropRead \/ ReleaseNext
    \/ StoreConsPos \/ ReleaseConsumer \/ ConsumerDies \/ ConsTakeNext

Next == ProducerNext \/ ConsumerNext

Spec == Init /\ [][Next]_vars

-----------------------------------------------------------------------------
(* Derived state.                                                          *)

\* The consumer's next message is the oldest committed one, or else the one
\* the producer will send next.
headAt == IF chain = <<>> THEN tailAt ELSE Head(chain)

\* The segments from the consumer's to the producer's.
InUse == {headAt.seg, tailAt.seg} \cup {chain[i].seg : i \in DOMAIN chain}

Writing == ppc \in {"filling", "filled"}
Reading == cpc \in {"reading", "read"}

-----------------------------------------------------------------------------
(* Properties.                                                             *)

\* Every holder, the first or a successor by any path, continues exactly where
\* the role stood: nothing is lost but the message a producer had not
\* committed, and nothing is repeated but the one a consumer had not released.
\* A fill never touches the slot of a committed, unread message, whoever
\* committed it.
ResumeExact ==
    /\ ppc = "idle" \/ Writing => At(pst.cur, pst.pos) = tailAt
    /\ cpc = "idle" \/ Reading => At(cst.cur, cst.pos) = headAt
    /\ Writing => \A i \in DOMAIN chain :
         <<pst.cur, Slot(pst.pos)>> # <<chain[i].seg, Slot(chain[i].pos)>>

\* The free sets survive switches that were cut short: between calls exactly
\* the segments outside the ring's path are free, so none leaks and none is
\* taken while it holds messages.  A segment the producer may take is claimable
\* throughout from where the producer, or the dead holder whose table it
\* loaded, left it.
SegmentsExact ==
    /\ ppc = "idle" /\ cpc = "idle" => FreeSegs = Segs \ InUse
    /\ ppc \in {"idle", "pick"} =>
         \A s \in FreeSegs : \A i \in Slots :
             LET n == pst.resume[s] + i IN word[s][Slot(n)] = Claimable(n)

\* "the producer's [words settle] within a ring's capacity of commits": a scan
\* beside a live peer fails at most M times, so a takeover is not refused.
ScansSettle == scans.prod <= M /\ scans.cons <= M

Pending == [i \in DOMAIN chain |-> buf[chain[i].seg][Slot(chain[i].pos)]]

Chan == INSTANCE FifoChannel
            WITH queue <- Pending, held <- got, Capacity <- M * seg_count

\* The ring is a bounded FIFO channel through deaths and takeovers: the death
\* of a consumer puts the message back, that of a producer sends nothing.
ImplementsFifo == Chan!ChanSpec

=============================================================================
