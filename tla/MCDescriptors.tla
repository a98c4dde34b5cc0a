--------------------------- MODULE MCDescriptors ---------------------------
\* A pool of two stacks, given largest first: one buffer of two units and two
\* buffers of one.
EXTENDS Descriptors

MCGeometry == <<[buf_size |-> 2, buf_count |-> 1], [buf_size |-> 1, buf_count |-> 2]>>

=============================================================================
