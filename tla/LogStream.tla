----------------------------- MODULE LogStream -----------------------------
(***************************************************************************)
(* What the logger of lualib-src/lua-log.c promises its callers: accepted  *)
(* messages wait in one queue, leave it in order to be stored, and are     *)
(* given up only as one block out of a backlog of at least Backlog         *)
(* messages, never the oldest, with a notice in their place at the end.    *)
(***************************************************************************)
EXTENDS Naturals, Sequences

CONSTANTS Messages,  \* what callers log
          Notice,    \* the message the logger writes about a discarded block
          Backlog    \* how many messages wait when a block is discarded

VARIABLES queue,     \* accepted, not yet stored
          stored,    \* on their way to the disk, oldest first
          lost       \* discarded

streamVars == <<queue, stored, lost>>

StreamInit == queue = <<>> /\ stored = <<>> /\ lost = <<>>

Accept(m) ==
  /\ queue' = Append(queue, m)
  /\ UNCHANGED <<stored, lost>>

Store(n) ==
  /\ n \in 1 .. Len(queue)
  /\ stored' = stored \o SubSeq(queue, 1, n)
  /\ queue' = SubSeq(queue, n + 1, Len(queue))
  /\ UNCHANGED lost

Discard(i, j) ==
  /\ Len(queue) >= Backlog
  /\ 1 < i /\ i <= j
  /\ lost' = lost \o SubSeq(queue, i, j)
  /\ queue' = SubSeq(queue, 1, i - 1) \o SubSeq(queue, j + 1, Len(queue))
                \o <<Notice>>
  /\ UNCHANGED stored

StreamNext ==
  \/ \E m \in Messages : Accept(m)
  \/ \E n \in 1 .. Len(queue) : Store(n)
  \/ \E i, j \in 1 .. Len(queue) : Discard(i, j)

StreamSpec == StreamInit /\ [][StreamNext]_streamVars
=============================================================================
