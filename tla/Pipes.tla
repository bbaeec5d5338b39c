-------------------------------- MODULE Pipes --------------------------------
(***************************************************************************)
(* The pipe table of kernel/hilevel.c: who owns which of the PIPES         *)
(* channels.  A channel is never given back.  (What goes through a channel *)
(* is in module Dining.)                                                   *)
(***************************************************************************)
EXTENDS Integers

CONSTANT PIPES         \* 32 in the code

PipeIds == 0 .. PIPES - 1

ASSUME PipesAssumption == PIPES \in Nat \ {0}

VARIABLE pipe          \* the ends of each pipe

\* memset( &pipe[ i ], -1, ... )
Nobody == -1
NoPipe == [sender |-> Nobody, receiver |-> Nobody]
initialisePipes == pipe = [p \in PipeIds |-> NoPipe]

FreePipe(p) == pipe[p].sender = Nobody /\ pipe[p].receiver = Nobody

\* nextPipe() finds index: the first pipe that belongs to nobody.
nextPipe(index) == /\ FreePipe(index)
                   /\ \A p \in PipeIds : p < index => ~FreePipe(p)

\* SVC 0x07 returns r.  When no pipe is left the handler leaves r0 alone, and the
\* caller takes its own first argument for the number of a pipe.
cpipe(start, end, r) ==
  \/ \E index \in PipeIds :
       /\ nextPipe(index)
       /\ pipe' = [pipe EXCEPT ![index] = [sender |-> start, receiver |-> end]]
       /\ r = index
  \/ /\ \A p \in PipeIds : ~FreePipe(p)
     /\ r = start
     /\ UNCHANGED pipe
=============================================================================
