---------------------------- MODULE PreparedTree ----------------------------
(***************************************************************************)
(* What the preparation scripts of ci/ promise about one checkout of the   *)
(* client they rewrite.  Every script ("tool") owns a list of files.  It   *)
(* pins the bytes it expects in each of them, which are the bytes the      *)
(* tools before it in the reviewed composition leave, it validates all of  *)
(* them before it writes the first, and it then rewrites them one by one:  *)
(* a process that stops in between leaves a tree that is half prepared.    *)
(* Nothing but the pins keeps the tools in order, and nothing repairs a    *)
(* tree: the answer to every mismatch is a refusal.                        *)
(*                                                                         *)
(* The content of a file is the set of the tools whose edits it holds.     *)
(***************************************************************************)
EXTENDS Naturals

CONSTANTS Tools,     \* the preparation scripts
          Files,     \* the files, by the tools that rewrite or create them
          Writes,    \* Writes[t] : the files tool t rewrites or creates
          Rank,      \* Rank[t] : the place of t in the reviewed composition
          NoTool

(* What an instance has to be: two tools never share a place.              *)
WellFormed ==
    /\ Writes \in [Tools -> SUBSET Files]
    /\ Rank \in [Tools -> Nat]
    /\ \A t, u \in Tools : Rank[t] = Rank[u] => t = u
    /\ NoTool \notin Tools

VARIABLES edits,     \* edits[f] : the tools whose edits file f holds
          torn,      \* the files a write of which was cut short
          running,   \* the tool that is writing, or NoTool
          left,      \* the files it has still to write
          passed     \* the tools that have reported success on this checkout

vars == <<edits, torn, running, left, passed>>

Writers(f) == {t \in Tools : f \in Writes[t]}

(* The pinned bytes of a file before and after a tool.                     *)
Pre(t, f)  == {u \in Writers(f) : Rank[u] < Rank[t]}
Post(t, f) == Pre(t, f) \cup {t}

Holds(f, content) == f \notin torn /\ edits[f] = content

-----------------------------------------------------------------------------
Pristine ==
    /\ edits = [f \in Files |-> {}]
    /\ torn = {}
    /\ running = NoTool
    /\ left = {}
    /\ passed = {}

Init == Pristine

(* A tool validates every input, and only then starts to write.            *)
Prepare(t) ==
    /\ running = NoTool
    /\ \A f \in Writes[t] : Holds(f, Pre(t, f))
    /\ running' = t
    /\ left' = Writes[t]
    /\ UNCHANGED <<edits, torn, passed>>

Write(f) ==
    /\ f \in left
    /\ edits' = [edits EXCEPT ![f] = @ \cup {running}]
    /\ left' = left \ {f}
    /\ UNCHANGED <<torn, running, passed>>

Finish ==
    /\ running # NoTool
    /\ left = {}
    /\ passed' = passed \cup {running}
    /\ running' = NoTool
    /\ UNCHANGED <<edits, torn, left>>

(* The process stops: between two files, or in the middle of one.          *)
Interrupt ==
    /\ running # NoTool
    /\ \E cut \in SUBSET left :
          /\ \A f, g \in cut : f = g
          /\ torn' = torn \cup cut
    /\ running' = NoTool
    /\ left' = {}
    /\ UNCHANGED <<edits, passed>>

(* --check: every file has the bytes the tool leaves.                      *)
Check(t) ==
    /\ running = NoTool
    /\ \A f \in Writes[t] : Holds(f, Post(t, f))
    /\ passed' = passed \cup {t}
    /\ UNCHANGED <<edits, torn, running, left>>

(* The only way back is another checkout.                                  *)
Discard == Pristine'

Next ==
    \/ \E t \in Tools : Prepare(t) \/ Check(t)
    \/ \E f \in Files : Write(f)
    \/ Finish
    \/ Interrupt
    \/ Discard

Spec == Init /\ [][Next]_vars

-----------------------------------------------------------------------------
(* However the tools are called, repeated, reordered and interrupted, no   *)
(* file ever holds the edits of a tool without those of every tool that    *)
(* the reviewed composition applies to it before.                          *)
ReviewedContent ==
    \A f \in Files : \A t \in edits[f] : t \in Writers(f) /\ Pre(t, f) \subseteq edits[f]

(* A file all of whose tools have reported success is complete: no later   *)
(* tool's interruption can have damaged it in between.                     *)
PassedIsWhole ==
    \A f \in Files : Writers(f) \subseteq passed => Holds(f, Writers(f))

(* A write that was cut short is never taken for an input again: the file  *)
(* stays as it is until the checkout is discarded.                         *)
TornStaysTorn ==
    [][ \/ Pristine'
        \/ /\ torn \subseteq torn'
           /\ \A f \in torn : edits'[f] = edits[f] ]_vars
=============================================================================
