-------------------------- MODULE ReleaseJob_proofs --------------------------
(***************************************************************************)
(* Theorems about PreparedTree, ReleaseJob and DeviceRun.                  *)
(*                                                                         *)
(* The first part, whose names begin with Tree, uses nothing of the tools  *)
(* but that they are WellFormed: the content that the reviewed composition *)
(* defines is the only one there is, whatever is repeated, reordered,      *)
(* interrupted or given up.                                                *)
(*                                                                         *)
(* The second: for any number of jobs and of scripts called out of turn,   *)
(* the workflows keep that promise, what they publish is whole, an         *)
(* undisturbed job is never refused, and no secret stays behind.           *)
(*                                                                         *)
(* The third: the trials on an emulator act on what they observed and      *)
(* report what the device showed, whatever the attempts at a look, the     *)
(* patience and the overlays.                                              *)
(***************************************************************************)
EXTENDS MCReleaseJob, TLAPS

TreeTypeOK ==
    /\ edits \in [Files -> SUBSET ToolNames]
    /\ torn \subseteq Files
    /\ running \in ToolNames \cup {NoTool}
    /\ passed \subseteq ToolNames
    /\ running = NoTool => ToSet(left) = {}
    /\ running # NoTool => ToSet(left) \subseteq WriteSets[running]

(* What the running tool has validated still holds of the files it has not *)
(* written yet, and the others are as it leaves them.                      *)
TreeWorkInv ==
    running # NoTool =>
        /\ \A f \in ToSet(left) : Tree!Holds(f, Tree!Pre(running, f))
        /\ \A f \in WriteSets[running] \ ToSet(left) : Tree!Holds(f, Tree!Post(running, f))

(* A tool that has reported success has left its edits, and no later tool  *)
(* takes them away.                                                        *)
TreePassedInv == \A t \in passed : \A f \in WriteSets[t] : t \in edits[f]

(* A file that was cut short lacks the edits of the tool that was cut.     *)
TreeTornInv == \A f \in torn : \E t \in Tree!Writers(f) : t \notin edits[f]

TreeIInv == TreeTypeOK /\ Tree!ReviewedContent /\ TreeWorkInv /\ TreePassedInv /\ TreeTornInv

-----------------------------------------------------------------------------
LEMMA TreePristineIsSound ==
    ASSUME Tree!WellFormed, Tree!Pristine PROVE TreeIInv
<1>1. TreeTypeOK
  BY DEF Tree!Pristine, TreeTypeOK
<1>2. Tree!ReviewedContent
  BY DEF Tree!Pristine, Tree!ReviewedContent
<1>3. TreeWorkInv /\ TreePassedInv /\ TreeTornInv
  BY DEF Tree!Pristine, TreeWorkInv, TreePassedInv, TreeTornInv
<1> QED
  BY <1>1, <1>2, <1>3 DEF TreeIInv

(* Below a place in the composition, the pinned contents are nested.       *)
LEMMA TreePinsAreNested ==
    ASSUME Tree!WellFormed, NEW f \in Files, NEW t \in Tree!Writers(f), NEW u \in Tree!Post(t, f)
    PROVE  u \in Tree!Writers(f) /\ Tree!Pre(u, f) \subseteq Tree!Post(t, f)
<1>1. CASE u = t
  BY <1>1 DEF Tree!Post
<1>2. CASE u \in Tree!Pre(t, f)
  <2>1. u \in Tree!Writers(f) /\ Rank[u] < Rank[t]
    BY <1>2 DEF Tree!Pre
  <2>2. ASSUME NEW v \in Tree!Pre(u, f) PROVE v \in Tree!Pre(t, f)
    <3>1. v \in Tree!Writers(f) /\ Rank[v] < Rank[u]
      BY <2>2 DEF Tree!Pre
    <3>2. Rank[v] \in Nat /\ Rank[u] \in Nat /\ Rank[t] \in Nat
      BY <2>1, <3>1 DEF Tree!WellFormed, Tree!Writers
    <3> QED
      BY <2>1, <3>1, <3>2 DEF Tree!Pre
  <2> QED
    BY <2>1, <2>2 DEF Tree!Post
<1> QED
  BY <1>1, <1>2 DEF Tree!Post

LEMMA TreeToolIsNotBeforeItself ==
    ASSUME Tree!WellFormed, NEW t \in ToolNames, NEW f PROVE t \notin Tree!Pre(t, f)
BY DEF Tree!WellFormed, Tree!Pre, Tree!Writers

-----------------------------------------------------------------------------
LEMMA TreePreparePreserves ==
    ASSUME Tree!WellFormed, TreeIInv, NEW t \in ToolNames, Tree!Prepare(t) PROVE TreeIInv'
<1>1. TreeTypeOK'
  BY DEF TreeIInv, TreeTypeOK, Tree!Prepare, Tree!WellFormed
<1>2. Tree!ReviewedContent' /\ TreePassedInv' /\ TreeTornInv'
  BY DEF TreeIInv, Tree!Prepare, Tree!ReviewedContent, TreePassedInv, TreeTornInv, Tree!Writers,
         Tree!Pre
<1>3. TreeWorkInv'
  BY DEF Tree!Prepare, TreeWorkInv, Tree!Holds, Tree!Pre, Tree!Post, Tree!Writers
<1> QED
  BY <1>1, <1>2, <1>3 DEF TreeIInv

LEMMA TreeWritePreserves ==
    ASSUME Tree!WellFormed, TreeIInv, NEW f \in Files, Tree!Write(f) PROVE TreeIInv'
<1>1. /\ running \in ToolNames /\ f \in WriteSets[running] /\ running \in Tree!Writers(f)
      /\ f \in ToSet(left) /\ f \notin torn /\ edits[f] = Tree!Pre(running, f)
      /\ running' = running /\ ToSet(left)' = ToSet(left) \ {f} /\ torn' = torn /\ passed' = passed
      /\ edits'[f] = Tree!Post(running, f)
      /\ \A g \in Files \ {f} : edits'[g] = edits[g]
  BY DEF TreeIInv, TreeTypeOK, TreeWorkInv, Tree!Write, Tree!Holds, Tree!Post, Tree!Writers
<1>2. TreeTypeOK'
  <2>1. edits' \in [Files -> SUBSET ToolNames]
    BY <1>1 DEF TreeIInv, TreeTypeOK, Tree!Write
  <2> QED
    BY <1>1, <2>1 DEF TreeIInv, TreeTypeOK
<1>3. Tree!ReviewedContent'
  <2> SUFFICES ASSUME NEW g \in Files, NEW t \in edits'[g]
               PROVE  t \in Tree!Writers(g) /\ Tree!Pre(t, g) \subseteq edits'[g]
    BY DEF Tree!ReviewedContent, Tree!Writers, Tree!Pre
  <2>1. CASE g = f
    BY <1>1, <2>1, TreePinsAreNested
  <2>2. CASE g # f
    BY <1>1, <2>2 DEF TreeIInv, Tree!ReviewedContent
  <2> QED
    BY <2>1, <2>2
<1>4. TreeWorkInv'
  <2>1. ASSUME NEW g \in ToSet(left)' PROVE g \notin torn' /\ edits'[g] = Tree!Pre(running, g)
    BY <1>1, <2>1 DEF TreeIInv, TreeTypeOK, TreeWorkInv, Tree!WellFormed, Tree!Holds
  <2>2. ASSUME NEW g \in WriteSets[running] \ ToSet(left)' PROVE g \notin torn'
                 /\ edits'[g] = Tree!Post(running, g)
    BY <1>1, <2>2 DEF TreeIInv, TreeTypeOK, TreeWorkInv, Tree!WellFormed, Tree!Holds
  <2> QED
    BY <1>1, <2>1, <2>2 DEF TreeWorkInv, Tree!Holds, Tree!Pre, Tree!Post, Tree!Writers
<1>5. TreePassedInv'
  <2> SUFFICES ASSUME NEW t \in passed, NEW g \in WriteSets[t] PROVE t \in edits'[g]
    BY <1>1 DEF TreePassedInv
  <2>1. t \in ToolNames /\ g \in Files /\ t \in edits[g]
    BY DEF TreeIInv, TreeTypeOK, TreePassedInv, Tree!WellFormed
  <2> QED
    BY <1>1, <2>1 DEF Tree!Post
<1>6. TreeTornInv'
  BY <1>1 DEF TreeIInv, TreeTypeOK, TreeTornInv, Tree!Writers
<1> QED
  BY <1>2, <1>3, <1>4, <1>5, <1>6 DEF TreeIInv

LEMMA TreeFinishPreserves ==
    ASSUME Tree!WellFormed, TreeIInv, Tree!Finish PROVE TreeIInv'
<1>1. TreeTypeOK'
  BY DEF TreeIInv, TreeTypeOK, Tree!Finish
<1>2. Tree!ReviewedContent' /\ TreeTornInv'
  BY DEF TreeIInv, Tree!Finish, Tree!ReviewedContent, TreeTornInv, Tree!Writers, Tree!Pre
<1>3. TreeWorkInv'
  BY DEF Tree!Finish, TreeWorkInv
<1>4. TreePassedInv'
  <2> SUFFICES ASSUME NEW f \in WriteSets[running] PROVE running \in edits[f]
    BY DEF TreeIInv, Tree!Finish, TreePassedInv
  <2>1. edits[f] = Tree!Post(running, f)
    BY DEF TreeIInv, TreeWorkInv, Tree!Finish, Tree!Holds
  <2> QED
    BY <2>1 DEF Tree!Post
<1> QED
  BY <1>1, <1>2, <1>3, <1>4 DEF TreeIInv

LEMMA TreeInterruptPreserves ==
    ASSUME Tree!WellFormed, TreeIInv, Tree!Interrupt PROVE TreeIInv'
<1>1. PICK hit \in SUBSET ToSet(left) : torn' = torn \cup hit
  BY DEF Tree!Interrupt
<1>2. /\ running \in ToolNames /\ ToSet(left) \subseteq WriteSets[running]
      /\ edits' = edits /\ passed' = passed /\ running' = NoTool /\ ToSet(left)' = {}
  BY DEF TreeIInv, TreeTypeOK, Tree!Interrupt
<1>3. hit \subseteq Files
  BY <1>2 DEF Tree!WellFormed
<1>4. TreeTypeOK'
  BY <1>1, <1>2, <1>3 DEF TreeIInv, TreeTypeOK
<1>5. Tree!ReviewedContent' /\ TreePassedInv' /\ TreeWorkInv'
  BY <1>2 DEF TreeIInv, Tree!ReviewedContent, TreePassedInv, TreeWorkInv, Tree!Writers, Tree!Pre
<1>6. TreeTornInv'
  <2> SUFFICES ASSUME NEW f \in torn \cup hit PROVE \E t \in Tree!Writers(f) : t \notin edits[f]
    BY <1>1, <1>2 DEF TreeTornInv, Tree!Writers
  <2>1. CASE f \in torn
    BY <2>1 DEF TreeIInv, TreeTornInv
  <2>2. CASE f \in hit
    <3>1. running \in Tree!Writers(f) /\ edits[f] = Tree!Pre(running, f)
      BY <1>2, <2>2 DEF TreeIInv, TreeWorkInv, Tree!Holds, Tree!Writers, Tree!WellFormed
    <3> QED
      BY <1>2, <3>1, TreeToolIsNotBeforeItself
  <2> QED
    BY <2>1, <2>2
<1> QED
  BY <1>4, <1>5, <1>6 DEF TreeIInv

LEMMA TreeCheckPreserves ==
    ASSUME Tree!WellFormed, TreeIInv, NEW t \in ToolNames, Tree!Check(t) PROVE TreeIInv'
<1>1. TreeTypeOK' /\ Tree!ReviewedContent' /\ TreeWorkInv' /\ TreeTornInv'
  BY DEF TreeIInv, TreeTypeOK, Tree!Check, Tree!ReviewedContent, TreeWorkInv, TreeTornInv,
         Tree!Writers, Tree!Pre, Tree!Post, Tree!Holds
<1>2. TreePassedInv'
  <2>1. \A f \in WriteSets[t] : t \in edits[f]
    BY DEF Tree!Check, Tree!Holds, Tree!Post
  <2> QED
    BY <2>1 DEF TreeIInv, Tree!Check, TreePassedInv
<1> QED
  BY <1>1, <1>2 DEF TreeIInv

LEMMA TreeNextPreserves ==
    ASSUME Tree!WellFormed, TreeIInv, [Tree!Next]_(Tree!vars) PROVE TreeIInv'
<1>1. CASE \E t \in ToolNames : Tree!Prepare(t) \/ Tree!Check(t)
  BY <1>1, TreePreparePreserves, TreeCheckPreserves
<1>2. CASE \E f \in Files : Tree!Write(f)
  BY <1>2, TreeWritePreserves
<1>3. CASE Tree!Finish
  BY <1>3, TreeFinishPreserves
<1>4. CASE Tree!Interrupt
  BY <1>4, TreeInterruptPreserves
<1>5. CASE Tree!Discard
  <2>1. Tree!Pristine'
    BY <1>5 DEF Tree!Discard
  <2>2. TreeTypeOK' /\ Tree!ReviewedContent'
    BY <2>1 DEF Tree!Pristine, TreeTypeOK, Tree!ReviewedContent
  <2>3. TreeWorkInv' /\ TreePassedInv' /\ TreeTornInv'
    BY <2>1 DEF Tree!Pristine, TreeWorkInv, TreePassedInv, TreeTornInv
  <2> QED
    BY <2>2, <2>3 DEF TreeIInv
<1>6. CASE UNCHANGED Tree!vars
  BY <1>6 DEF Tree!vars, TreeIInv, TreeTypeOK, Tree!ReviewedContent, TreeWorkInv, TreePassedInv,
         TreeTornInv,
              Tree!Holds, Tree!Pre, Tree!Post, Tree!Writers
<1> QED
  BY <1>1, <1>2, <1>3, <1>4, <1>5, <1>6 DEF Tree!Next

-----------------------------------------------------------------------------
(* The inductive invariant holds in every reachable state.                 *)
THEOREM TreeInvariant == ASSUME Tree!WellFormed PROVE Tree!Spec => []TreeIInv
<1>1. Tree!Init => TreeIInv
  BY TreePristineIsSound DEF Tree!Init
<1>2. TreeIInv /\ [Tree!Next]_(Tree!vars) => TreeIInv'
  BY TreeNextPreserves
<1> QED
  BY <1>1, <1>2, PTL DEF Tree!Spec

(* No file ever holds the edits of a tool without those of every tool that *)
(* the composition applies before, however the tools are called.           *)
THEOREM TreeContentIsReviewed == ASSUME Tree!WellFormed PROVE Tree!Spec => []Tree!ReviewedContent
<1>1. TreeIInv => Tree!ReviewedContent
  BY DEF TreeIInv
<1> QED
  BY <1>1, TreeInvariant, PTL

LEMMA TreePassedIsWhole ==
    ASSUME TreeIInv PROVE Tree!PassedIsWhole
<1> SUFFICES ASSUME NEW f \in Files, Tree!Writers(f) \subseteq passed
             PROVE  f \notin torn /\ edits[f] = Tree!Writers(f)
  BY DEF Tree!PassedIsWhole, Tree!Holds
<1>1. \A t \in Tree!Writers(f) : t \in edits[f]
  BY DEF TreeIInv, TreePassedInv, Tree!Writers
<1>2. f \notin torn
  BY <1>1 DEF TreeIInv, TreeTornInv
<1>3. edits[f] \subseteq Tree!Writers(f)
  BY DEF TreeIInv, Tree!ReviewedContent
<1> QED
  BY <1>1, <1>2, <1>3

(* When all tools of a file have reported success, it is complete, whoever *)
(* was interrupted in between.                                             *)
THEOREM TreePassedMeansWhole == ASSUME Tree!WellFormed PROVE Tree!Spec => []Tree!PassedIsWhole
<1>1. TreeIInv => Tree!PassedIsWhole
  BY TreePassedIsWhole
<1> QED
  BY <1>1, TreeInvariant, PTL

(* A write that was cut short is never taken for an input or repaired: the *)
(* file stays as it is until the checkout is discarded.                    *)
THEOREM TreeTornIsFinal == ASSUME Tree!WellFormed PROVE Tree!Spec => Tree!TornStaysTorn
<1> DEFINE Stays == Tree!Pristine' \/ (torn \subseteq torn' /\ \A f \in torn : edits'[f] = edits[f])
<1>1. ASSUME TreeIInv, [Tree!Next]_(Tree!vars) PROVE [Stays]_(Tree!vars)
  <2>1. CASE \E t \in ToolNames : Tree!Prepare(t) \/ Tree!Check(t)
    BY <2>1 DEF Tree!Prepare, Tree!Check
  <2>2. ASSUME NEW f \in Files, Tree!Write(f) PROVE Stays
    <3>1. running # NoTool
      BY <1>1, <2>2 DEF TreeIInv, TreeTypeOK, Tree!Write
    <3>2. f \notin torn
      BY <1>1, <2>2, <3>1 DEF TreeIInv, TreeWorkInv, Tree!Write, Tree!Holds
    <3> QED
      BY <1>1, <2>2, <3>2 DEF TreeIInv, TreeTypeOK, Tree!Write
  <2>3. CASE Tree!Finish \/ Tree!Interrupt
    BY <2>3 DEF Tree!Finish, Tree!Interrupt
  <2>4. CASE Tree!Discard
    BY <2>4 DEF Tree!Discard
  <2>5. CASE UNCHANGED Tree!vars
    BY <2>5
  <2> QED
    BY <1>1, <2>1, <2>2, <2>3, <2>4, <2>5 DEF Tree!Next
<1> QED
  BY <1>1, TreeInvariant, PTL DEF Tree!Spec, Tree!TornStaysTorn
-----------------------------------------------------------------------------
(* The inductive invariant of the job *)

(* The tools whose turn has come before step i of a workflow.              *)
DoneIn(w, i) == {w[k].tool : k \in {k \in DOMAIN w : k < i /\ w[k].act = "prepare"}}
Done(i) == DoneIn(Workflow, i)

(* A step of its kind lies behind.                                         *)
Behind(act) == \E k \in DOMAIN Workflow : k < at /\ Workflow[k].act = act

JobOK ==
    /\ platform \in {"android", "windows"}
    /\ phase \in {"steps", "cleanup", "over"}
    /\ at \in DOMAIN Workflow
    /\ {byHand, failed, secret, lost, staged, accident} \subseteq BOOLEAN

(* What is left to write, each file once.                                  *)
LeftOK ==
    /\ left \in Seq(Files) /\ IsInjective(left)
    /\ running = NoTool => left = <<>>

(* Who runs: the tool of the step, or one that was called by hand.         *)
RunInv ==
    /\ running # NoTool => phase = "steps"
    /\ running # NoTool /\ ~byHand => Workflow[at] = [act |-> "prepare", tool |-> running]
    /\ byHand => running # NoTool /\ accident

(* What the steps behind have left: tools that passed, the secret, and a   *)
(* product that is whole.                                                  *)
StepsInv == phase = "steps" =>
    /\ Done(at) \subseteq passed
    /\ Behind("secret") => secret
    /\ Behind("build") => built = [incomplete |-> {}, unfit |-> {}, signed |-> TRUE]

(* A job that nothing disturbed has prepared its tools, and nothing else.  *)
QuietInv == ~accident =>
    /\ ~failed
    /\ phase = "steps" =>
          /\ torn = {}
          /\ \A f \in Files : edits[f] = {t \in Tree!Writers(f) :
                t \in Done(at) \/ (t = running /\ f \notin ToSet(left))}
          /\ secret => Behind("secret")
          /\ staged => Behind("collect")

JobInv == JobOK /\ LeftOK /\ RunInv /\ StepsInv /\ QuietInv /\ PublishedIsWhole /\ SecretsRemoved
-----------------------------------------------------------------------------
(* The tables: the steps of a workflow and the tools behind them *)

LEMMA StepFacts ==
    ASSUME JobOK
    PROVE  /\ Workflow \in Seq([act : STRING, tool : STRING])
           /\ \A i \in DOMAIN Workflow :
                Workflow[i].act \in {"prepare", "check", "try"} => Workflow[i].tool \in PlatformTools
           /\ \A t \in PlatformTools :
                \E i \in DOMAIN Workflow : Workflow[i] = [act |-> "prepare", tool |-> t]
           /\ \A i, k \in DOMAIN Workflow :
                i < k /\ Workflow[i].act = "prepare" /\ Workflow[k].act = "prepare" =>
                    Rank[Workflow[i].tool] < Rank[Workflow[k].tool]
           /\ \A i \in DOMAIN Workflow : Workflow[i].act = "check" =>
                i > 1 /\ Workflow[i - 1] = [act |-> "prepare", tool |-> Workflow[i].tool]
           /\ \A i \in DOMAIN Workflow : Workflow[i].act = "try" =>
                i < Len(Workflow) /\ Workflow[i + 1] = [act |-> "prepare", tool |-> Workflow[i].tool]
           /\ PlatformTools \subseteq ToolNames
BY StepsAssumption, StatusAssumption DEF JobOK, Workflow, PlatformTools

LEMMA ElementOf ==
    ASSUME NEW S, NEW s \in Seq(S), NEW i \in DOMAIN s PROVE s[i] \in S
OBVIOUS

LEMMA StepRecord ==
    ASSUME JobOK, NEW i \in DOMAIN Workflow
    PROVE  Workflow[i] = [act |-> Workflow[i].act, tool |-> Workflow[i].tool]
<1>1. Workflow[i] \in [act : STRING, tool : STRING]
  BY StepFacts, ElementOf
<1> QED
  BY <1>1

LEMMA PhaseFacts ==
    ASSUME JobOK
    PROVE  /\ Workflow[Len(Workflow)].act = "upload"
           /\ \A i, k \in DOMAIN Workflow :
                Workflow[i].act = "clean" /\ Workflow[k].act = "prepare" => i < k
           /\ \A i, k \in DOMAIN Workflow :
                Workflow[i].act = "build" /\ Workflow[k].act \in {"prepare", "secret"} => k < i
           /\ \A act \in {"secret", "build"} : \E i \in DOMAIN Workflow : Workflow[i].act = act
           /\ \A i, k \in DOMAIN Workflow :
                Workflow[i].act = "build" /\ Workflow[k].act \in {"collect", "upload"} => i < k
           /\ \A i, k \in DOMAIN Workflow :
                Workflow[i].act = Workflow[k].act /\ Workflow[i].act \in {"secret", "collect"} => i = k
BY PhasesAssumption DEF JobOK, Workflow

LEMMA StatusFacts ==
    ASSUME JobOK, NEW t \in PlatformTools
    PROVE  /\ \A f \in WriteSets[t] \cup Tools[t].reads : Tree!Writers(f) \subseteq PlatformTools
           /\ \A u \in PlatformTools : Rank[u] < Rank[t] =>
                /\ Tools[t].tree \notin {"clean", "own"}
                /\ Tools[t].tree = "offline" => WriteSets[u] \subseteq Added \cup ToSet(BaselinePaths)
           /\ Tools[t].tree = "own" => WriteSets[t] \cap Outside = {}
BY StatusAssumption DEF JobOK, PlatformTools

(* What a tool's row of the tables says.                                   *)
LEMMA ToolFacts ==
    ASSUME NEW t \in ToolNames
    PROVE  /\ Tools[t].writes \in Seq(Files) /\ IsInjective(Tools[t].writes)
           /\ WriteSets[t] = ToSet(Tools[t].writes) /\ WriteSets[t] \subseteq Files
           /\ Tools[t].reads \subseteq Files /\ Tools[t].creates \subseteq WriteSets[t]
           /\ Tools[t].tree \in {"any", "clean", "offline", "own"}
           /\ \A f \in Tools[t].creates : Tree!Pre(t, f) = {}
           /\ Rank[t] \in Nat /\ t # NoTool
           /\ \A u \in ToolNames : Rank[t] = Rank[u] => t = u
<1>1. WriteSets[t] = ToSet(Tools[t].writes)
  BY DEF WriteSets
<1>2. WriteSets[t] \subseteq Files
  BY DEF Files
<1>3. Rank[t] \in Nat /\ t # NoTool /\ \A u \in ToolNames : Rank[t] = Rank[u] => t = u
  BY ToolsAssumption DEF Tree!WellFormed
<1> QED
  BY <1>1, <1>2, <1>3, TablesAssumption

(* Behind every step but the upload there is another.                      *)
LEMMA NotLast ==
    ASSUME JobOK, Workflow[at].act # "upload" PROVE at + 1 \in DOMAIN Workflow
<1> DEFINE last == Len(Workflow)
<1>1. Workflow[last].act = "upload"
  BY PhaseFacts
<1>2. DOMAIN Workflow = 1..last /\ last \in Nat /\ at \in 1..last
  BY StepFacts DEF JobOK
<1> HIDE DEF last
<1>3. at # last
  BY <1>1
<1> QED
  BY <1>2, <1>3

LEMMA DoneMember ==
    ASSUME NEW w, NEW i, NEW t
    PROVE  t \in DoneIn(w, i) <=>
               \E k \in DOMAIN w : k < i /\ w[k].act = "prepare" /\ w[k].tool = t
BY DEF DoneIn

LEMMA DoneOneMore ==
    ASSUME NEW w, NEW i \in DOMAIN w, NEW n, \A k \in DOMAIN w : k < n <=> k < i \/ k = i
    PROVE  /\ w[i].act # "prepare" => DoneIn(w, n) = DoneIn(w, i)
           /\ w[i].act = "prepare" => DoneIn(w, n) = DoneIn(w, i) \cup {w[i].tool}
<1>1. \A t : t \in DoneIn(w, n) <=>
          t \in DoneIn(w, i) \/ (w[i].act = "prepare" /\ w[i].tool = t)
  BY DoneMember
<1> QED
  BY <1>1

(* The workflow goes on behind every step but the last.                    *)
LEMMA Moving ==
    ASSUME JobOK, UNCHANGED platform, at' = at + 1, Workflow[at].act # "upload"
    PROVE  /\ at' \in DOMAIN Workflow' /\ Workflow' = Workflow
           /\ Workflow[at].act # "prepare" => Done(at)' = Done(at)
           /\ Workflow[at].act = "prepare" => Done(at)' = Done(at) \cup {Workflow[at].tool}
           /\ \A act : Behind(act)' <=> Behind(act) \/ Workflow[at].act = act
<1>1. Workflow' = Workflow
  BY DEF Workflow
<1>2. DOMAIN Workflow \subseteq Nat /\ at \in Nat
  BY StepFacts DEF JobOK
<1>3. at + 1 \in DOMAIN Workflow /\ \A k \in DOMAIN Workflow : k < at + 1 <=> k < at \/ k = at
  BY <1>2, NotLast
<1>4. /\ Workflow[at].act # "prepare" => Done(at + 1) = Done(at)
      /\ Workflow[at].act = "prepare" => Done(at + 1) = Done(at) \cup {Workflow[at].tool}
  BY <1>3, DoneOneMore DEF Done, JobOK
<1>5. Done(at)' = Done(at + 1)
  BY <1>1 DEF Done, DoneIn
<1>6. \A act : Behind(act)' <=> \E k \in DOMAIN Workflow : k < at + 1 /\ Workflow[k].act = act
  BY <1>1 DEF Behind
<1>7. \A act : Behind(act)' <=> Behind(act) \/ Workflow[at].act = act
  BY <1>3, <1>6 DEF Behind, JobOK
<1> QED
  BY <1>1, <1>3, <1>4, <1>5, <1>7

(* When a tool's turn comes, those before it in the composition are done.  *)
LEMMA TurnsInOrder ==
    ASSUME JobOK, NEW i \in DOMAIN Workflow, Workflow[i].act = "prepare"
    PROVE  DoneIn(Workflow, i) = {u \in PlatformTools : Rank[u] < Rank[Workflow[i].tool]}
<1> DEFINE t == Workflow[i].tool
<1>1. t \in PlatformTools /\ t \in ToolNames /\ Rank[t] \in Nat
  BY StepFacts, ToolFacts
<1>2. DOMAIN Workflow \subseteq Nat /\ i \in Nat
  BY StepFacts
<1>3. ASSUME NEW k \in DOMAIN Workflow, k < i, Workflow[k].act = "prepare"
      PROVE  Workflow[k].tool \in PlatformTools /\ Rank[Workflow[k].tool] < Rank[t]
  BY <1>3, StepFacts
<1>4. ASSUME NEW u \in PlatformTools, Rank[u] < Rank[t]
      PROVE  \E k \in DOMAIN Workflow : k < i /\ Workflow[k].act = "prepare" /\ Workflow[k].tool = u
  <2>1. PICK k \in DOMAIN Workflow : Workflow[k] = [act |-> "prepare", tool |-> u]
    BY StepFacts
  <2>2. u \in ToolNames /\ Rank[u] \in Nat
    BY StepFacts, ToolFacts
  <2>3. k # i
    BY <1>1, <1>4, <2>1, <2>2
  <2>4. ~(i < k)
    <3>1. i < k => Rank[t] < Rank[u]
      BY <2>1, StepFacts
    <3> QED
      BY <1>1, <1>4, <2>2, <3>1
  <2> QED
    BY <1>2, <2>1, <2>3, <2>4
<1> HIDE DEF t
<1> QED
  BY <1>3, <1>4 DEF DoneIn, t

-----------------------------------------------------------------------------
(* An undisturbed job is never refused *)

(* The checkout when a tool's turn comes and nothing has disturbed the job.*)
LEMMA QuietTree ==
    ASSUME JobInv, ~accident, phase = "steps", running = NoTool
    PROVE  /\ torn = {} /\ ~failed
           /\ \A f \in Files : edits[f] = {t \in Tree!Writers(f) : t \in Done(at)}
<1>1. \A f \in Files : NoTool \notin Tree!Writers(f)
  BY ToolsAssumption DEF Tree!WellFormed, Tree!Writers
<1> QED
  BY <1>1 DEF JobInv, QuietInv

LEMMA QuietPins ==
    ASSUME JobInv, ~accident, phase = "steps", running = NoTool,
           NEW t \in PlatformTools, Done(at) = {u \in PlatformTools : Rank[u] < Rank[t]},
           NEW f \in Files, Tree!Writers(f) \subseteq PlatformTools
    PROVE  Tree!Holds(f, Tree!Pre(t, f))
<1>1. edits[f] = {u \in Tree!Writers(f) : Rank[u] < Rank[t]}
  BY QuietTree
<1> QED
  BY <1>1, QuietTree DEF Tree!Holds, Tree!Pre

LEMMA QuietAllows ==
    ASSUME JobInv, ~accident, phase = "steps", running = NoTool,
           NEW t \in PlatformTools, Done(at) = {u \in PlatformTools : Rank[u] < Rank[t]}
    PROVE  MayPrepare(t)
<1>1. JobOK
  BY DEF JobInv
<1>2. t \in ToolNames /\ PlatformTools \subseteq ToolNames
  BY <1>1, StepFacts
<1>3. \A f \in WriteSets[t] \cup Tools[t].reads :
          f \in Files /\ Tree!Writers(f) \subseteq PlatformTools
  BY <1>1, <1>2, StatusFacts, ToolFacts
<1>4. Inputs(t)
  BY <1>3, QuietPins DEF Inputs
<1>5. Fresh(t)
  <2> SUFFICES ASSUME NEW f \in Tools[t].creates PROVE ~Exists(f)
    BY DEF Fresh
  <2>1. f \in WriteSets[t] /\ Tree!Pre(t, f) = {}
    BY <1>2, ToolFacts
  <2>2. Tree!Holds(f, {})
    BY <1>3, <2>1, QuietPins
  <2> QED
    BY <2>2 DEF Exists, Tree!Holds
(* What is modified was written by a tool whose turn has been.             *)
<1>6. ASSUME NEW f \in Files, Exists(f)
      PROVE  \E u \in PlatformTools : Rank[u] < Rank[t] /\ f \in WriteSets[u]
  BY <1>6, QuietTree DEF Exists, Tree!Writers
<1>7. Tools[t].tree \in {"clean", "own"} => \A f \in Files : ~Exists(f)
  BY <1>1, <1>6, StatusFacts
<1>8. Tools[t].tree = "offline" => \A f \in Files : Exists(f) => f \in Added \cup ToSet(BaselinePaths)
  BY <1>1, <1>6, StatusFacts
<1>9. TreeAllows(t)
  <2>1. Tools[t].tree \in {"any", "clean", "offline", "own"}
    BY <1>2, ToolFacts
  <2>2. Tools[t].tree = "clean" => TrackedClean({})
    BY <1>7 DEF TrackedClean, Modified
  <2>3. Tools[t].tree = "own" => StatusClean
    BY <1>7 DEF StatusClean, Modified
  <2>4. Tools[t].tree = "offline" => TrackedClean(ToSet(BaselinePaths))
    BY <1>8 DEF TrackedClean, Modified
  <2> QED
    BY <2>1, <2>2, <2>3, <2>4 DEF TreeAllows
<1> QED
  BY <1>4, <1>5, <1>9 DEF MayPrepare

LEMMA QuietPrepares ==
    ASSUME JobInv, ~accident, Doing("prepare") \/ Doing("try") PROVE MayPrepare(ThisTool)
<1>1. JobOK /\ phase = "steps" /\ running = NoTool /\ at \in DOMAIN Workflow
  BY DEF JobInv, JobOK, Doing
<1>2. ThisTool \in PlatformTools
  BY <1>1, StepFacts DEF Doing, ThisTool
<1>3. CASE Doing("prepare")
  BY <1>1, <1>2, <1>3, TurnsInOrder, QuietAllows DEF Doing, ThisTool, Done
<1>4. CASE Doing("try")
  <2>1. /\ at + 1 \in DOMAIN Workflow
        /\ Workflow[at + 1] = [act |-> "prepare", tool |-> ThisTool]
    BY <1>1, <1>4, StepFacts DEF Doing, ThisTool
  <2>2. DoneIn(Workflow, at + 1) = {u \in PlatformTools : Rank[u] < Rank[ThisTool]}
    BY <1>1, <2>1, TurnsInOrder
  <2>3. \A k \in DOMAIN Workflow : k < at + 1 <=> k < at \/ k = at
    BY <1>1, StepFacts
  <2>4. DoneIn(Workflow, at + 1) = Done(at)
    BY <1>4, <2>3 DEF Done, DoneIn, Doing
  <2> QED
    BY <1>1, <1>2, <2>2, <2>4, QuietAllows
<1> QED
  BY <1>3, <1>4

LEMMA QuietChecks ==
    ASSUME JobInv, ~accident, Doing("check") PROVE MayPass(ThisTool)
<1> DEFINE t == ThisTool
<1>1. JobOK /\ phase = "steps" /\ running = NoTool /\ at \in DOMAIN Workflow
  BY DEF JobInv, JobOK, Doing
<1>2. t \in PlatformTools /\ t \in ToolNames
  BY <1>1, StepFacts DEF Doing, ThisTool
<1>3. at - 1 \in DOMAIN Workflow /\ Workflow[at - 1] = [act |-> "prepare", tool |-> t]
  BY <1>1, StepFacts DEF Doing, ThisTool
<1>4. DoneIn(Workflow, at - 1) = {u \in PlatformTools : Rank[u] < Rank[t]}
  BY <1>1, <1>3, TurnsInOrder
<1>5. \A k \in DOMAIN Workflow : k < at <=> k < at - 1 \/ k = at - 1
  BY <1>1, StepFacts
<1>6. Done(at) = DoneIn(Workflow, at - 1) \cup {t}
  BY <1>3, <1>5 DEF Done, DoneIn
<1> HIDE DEF t
<1>7. \A f \in WriteSets[t] : /\ f \in Files /\ Tree!Writers(f) \subseteq PlatformTools
                              /\ t \in Tree!Writers(f)
  BY <1>1, <1>2, StatusFacts, ToolFacts DEF Tree!Writers
<1>8. \A f \in Files : edits[f] = {u \in Tree!Writers(f) : u \in Done(at)} /\ f \notin torn
  BY <1>1, QuietTree
<1>9. \A f \in WriteSets[t] : Tree!Holds(f, Tree!Post(t, f))
  BY <1>4, <1>6, <1>7, <1>8 DEF Tree!Holds, Tree!Post, Tree!Pre
<1>10. OwnChanges(t)
  <2> SUFFICES ASSUME Tools[t].tree = "own" PROVE {f \in Files : Modified(f)} = WriteSets[t]
    BY DEF OwnChanges
  <2>1. Done(at) = {t} /\ WriteSets[t] \cap Outside = {}
    BY <1>1, <1>2, <1>4, <1>6, StatusFacts
  <2>2. \A f \in Files : edits[f] # {} <=> f \in WriteSets[t]
    BY <1>2, <1>8, <2>1 DEF Tree!Writers
  <2> QED
    BY <1>7, <1>8, <2>1, <2>2 DEF Modified, Exists
<1> QED
  BY <1>9, <1>10 DEF MayPass, t

LEMMA QuietClean ==
    ASSUME JobInv, ~accident, Doing("clean") PROVE StatusClean
<1>1. JobOK /\ phase = "steps" /\ running = NoTool /\ at \in DOMAIN Workflow
  BY DEF JobInv, JobOK, Doing
<1>2. \A k \in DOMAIN Workflow : ~(k < at /\ Workflow[k].act = "prepare")
  BY <1>1, PhaseFacts, StepFacts DEF Doing
<1>3. Done(at) = {}
  BY <1>2 DEF Done, DoneIn
<1> QED
  BY <1>1, <1>3, QuietTree DEF StatusClean, Modified, Exists

LEMMA QuietSecret ==
    ASSUME JobInv, ~accident, Doing("secret") PROVE ~secret
<1>1. JobOK /\ phase = "steps" /\ at \in DOMAIN Workflow
  BY DEF JobInv, JobOK, Doing
<1>2. ~Behind("secret")
  BY <1>1, PhaseFacts, StepFacts DEF Behind, Doing
<1> QED
  BY <1>1, <1>2 DEF JobInv, QuietInv

LEMMA QuietProduct ==
    ASSUME JobInv, ~accident, Doing("collect") PROVE Acceptable
<1>1. JobOK /\ phase = "steps" /\ at \in DOMAIN Workflow
  BY DEF JobInv, JobOK, Doing
<1>2. ~Behind("collect")
  BY <1>1, PhaseFacts, StepFacts DEF Behind, Doing
<1>3. Behind("build")
  BY <1>1, PhaseFacts DEF Behind, Doing
<1> QED
  BY <1>1, <1>2, <1>3 DEF JobInv, QuietInv, StepsInv, Acceptable

-----------------------------------------------------------------------------
(* Every step preserves the inductive invariant of the job *)

(* The steps that run no tool, and the checks, leave the tree alone.       *)
still == <<platform, edits, torn, running, left, byHand, lost, published>>

LEMMA FailingPreserves ==
    ASSUME JobInv, phase = "steps", running = NoTool, StepFails, UNCHANGED still, accident' = TRUE,
           {secret', staged'} \subseteq BOOLEAN
    PROVE  JobInv'
<1>1. /\ platform' = platform /\ at' = at /\ running' = running /\ left' = left
      /\ byHand' = byHand /\ lost' = lost /\ published' = published
      /\ phase' = "cleanup" /\ failed' = TRUE
  BY DEF still, StepFails
<1>2. JobOK'
  BY <1>1 DEF JobInv, JobOK, Workflow
<1>3. LeftOK' /\ RunInv' /\ StepsInv' /\ QuietInv'
  BY <1>1 DEF JobInv, LeftOK, RunInv, StepsInv, QuietInv
<1>4. PublishedIsWhole' /\ SecretsRemoved'
  BY <1>1 DEF JobInv, PublishedIsWhole, SecretsRemoved
<1> QED
  BY <1>2, <1>3, <1>4 DEF JobInv

LEMMA PassingPreserves ==
    ASSUME JobInv, phase = "steps", running = NoTool, StepDone, UNCHANGED still,
           accident' = accident, passed \subseteq passed',
           Workflow[at].act \notin {"prepare", "upload"},
           secret' = (secret \/ Workflow[at].act = "secret"),
           staged' = (staged \/ Workflow[at].act = "collect"),
           built' = IF Workflow[at].act = "build" THEN [incomplete |-> {}, unfit |-> {}, signed |-> TRUE]
                                                  ELSE built
    PROVE  JobInv'
<1>1. /\ platform' = platform /\ at' = at + 1 /\ running' = running /\ left' = left
      /\ edits' = edits /\ torn' = torn
      /\ byHand' = byHand /\ lost' = lost /\ published' = published
      /\ phase' = "steps" /\ failed' = failed
  BY DEF still, StepDone
<1>2. JobOK
  BY DEF JobInv
<1>3. /\ at' \in DOMAIN Workflow' /\ Done(at)' = Done(at)
      /\ \A act : Behind(act)' <=> Behind(act) \/ Workflow[at].act = act
  BY <1>1, <1>2, Moving
<1>4. JobOK'
  BY <1>1, <1>2, <1>3 DEF JobOK
<1>5. LeftOK' /\ RunInv'
  BY <1>1 DEF JobInv, LeftOK, RunInv
<1>6. StepsInv'
  BY <1>1, <1>3 DEF JobInv, StepsInv
<1>7. QuietInv'
  BY <1>1, <1>3 DEF JobInv, QuietInv, Tree!Writers
<1>8. PublishedIsWhole' /\ SecretsRemoved'
  BY <1>1 DEF JobInv, PublishedIsWhole, SecretsRemoved
<1> QED
  BY <1>4, <1>5, <1>6, <1>7, <1>8 DEF JobInv

LEMMA ValidateInputsPreserves ==
    ASSUME JobInv, ValidateInputs PROVE JobInv'
<1>1. /\ phase = "steps" /\ running = NoTool /\ Workflow[at].act = "inputs" /\ UNCHANGED still
      /\ passed' = passed /\ secret' = secret /\ staged' = staged /\ built' = built
  BY DEF ValidateInputs, Doing, still, tree
<1>2. {secret, staged} \subseteq BOOLEAN
  BY DEF JobInv, JobOK
<1>3. CASE StepDone /\ accident' = accident
  BY <1>1, <1>2, <1>3, PassingPreserves
<1>4. CASE StepFails /\ accident' = TRUE
  BY <1>1, <1>2, <1>4, FailingPreserves
<1> QED
  BY <1>3, <1>4 DEF ValidateInputs

LEMMA WriteSecretPreserves ==
    ASSUME JobInv, WriteSecret PROVE JobInv'
<1>1. /\ phase = "steps" /\ running = NoTool /\ Workflow[at].act = "secret" /\ UNCHANGED still
      /\ passed' = passed /\ staged' = staged /\ built' = built
  BY DEF WriteSecret, Doing, still, tree
<1>2. {secret, staged, accident} \subseteq BOOLEAN
  BY DEF JobInv, JobOK
<1>3. CASE secret /\ StepFails /\ UNCHANGED <<secret, accident>>
  <2>1. accident
    BY <1>3, QuietSecret DEF WriteSecret
  <2> QED
    BY <1>1, <1>2, <1>3, <2>1, FailingPreserves
<1>4. CASE ~secret /\ StepDone /\ secret' = TRUE /\ UNCHANGED accident
  BY <1>1, <1>2, <1>4, PassingPreserves
<1>5. CASE StepFails /\ secret' = TRUE /\ accident' = TRUE
  BY <1>1, <1>2, <1>5, FailingPreserves
<1> QED
  BY <1>3, <1>4, <1>5 DEF WriteSecret

LEMMA RequireCleanPreserves ==
    ASSUME JobInv, RequireClean PROVE JobInv'
<1>1. /\ phase = "steps" /\ running = NoTool /\ Workflow[at].act = "clean" /\ UNCHANGED still
      /\ passed' = passed /\ secret' = secret /\ staged' = staged /\ built' = built
      /\ accident' = accident
  BY DEF RequireClean, Doing, still, tree
<1>2. {secret, staged, accident} \subseteq BOOLEAN
  BY DEF JobInv, JobOK
<1>3. CASE StepDone
  BY <1>1, <1>2, <1>3, PassingPreserves
<1>4. CASE StepFails /\ ~StatusClean
  <2>1. accident
    BY <1>4, QuietClean DEF RequireClean
  <2> QED
    BY <1>1, <1>2, <1>4, <2>1, FailingPreserves
<1> QED
  BY <1>3, <1>4 DEF RequireClean

LEMMA TryToolPreserves ==
    ASSUME JobInv, TryTool PROVE JobInv'
<1>1. /\ phase = "steps" /\ running = NoTool /\ Workflow[at].act = "try" /\ UNCHANGED still
      /\ passed' = passed /\ secret' = secret /\ staged' = staged /\ built' = built
      /\ accident' = accident
  BY DEF TryTool, Doing, still, tree
<1>2. {secret, staged, accident} \subseteq BOOLEAN
  BY DEF JobInv, JobOK
<1>3. CASE StepDone
  BY <1>1, <1>2, <1>3, PassingPreserves
<1>4. CASE StepFails /\ ~MayPrepare(ThisTool)
  <2>1. accident
    BY <1>4, QuietPrepares DEF TryTool
  <2> QED
    BY <1>1, <1>2, <1>4, <2>1, FailingPreserves
<1> QED
  BY <1>3, <1>4 DEF TryTool

LEMMA CheckToolPreserves ==
    ASSUME JobInv, CheckTool PROVE JobInv'
<1>1. /\ phase = "steps" /\ running = NoTool /\ Workflow[at].act = "check" /\ UNCHANGED still
      /\ secret' = secret /\ staged' = staged /\ built' = built /\ accident' = accident
  BY DEF CheckTool, Doing, still
<1>2. {secret, staged, accident} \subseteq BOOLEAN
  BY DEF JobInv, JobOK
<1>3. CASE StepDone /\ passed' = passed \cup {ThisTool}
  BY <1>1, <1>2, <1>3, PassingPreserves
<1>4. CASE StepFails /\ ~MayPass(ThisTool)
  <2>1. accident
    BY <1>4, QuietChecks DEF CheckTool
  <2> QED
    BY <1>1, <1>2, <1>4, <2>1, FailingPreserves
<1> QED
  BY <1>3, <1>4 DEF CheckTool

(* When the build comes, every tool of the platform has passed.            *)
LEMMA BuildPreserves ==
    ASSUME TreeIInv, JobInv, Build PROVE JobInv'
<1>1. /\ phase = "steps" /\ running = NoTool /\ Workflow[at].act = "build" /\ UNCHANGED still
      /\ passed' = passed /\ secret' = secret /\ staged' = staged /\ accident' = accident
      /\ StepDone
  BY DEF Build, Doing, still, tree
<1>2. JobOK /\ at \in DOMAIN Workflow /\ {secret, staged} \subseteq BOOLEAN
  BY DEF JobInv, JobOK
<1>3. Behind("secret")
  <2>1. PICK i \in DOMAIN Workflow : Workflow[i].act = "secret"
    BY <1>2, PhaseFacts
  <2>2. i < at
    BY <1>1, <1>2, <2>1, PhaseFacts
  <2> QED
    BY <2>1, <2>2 DEF Behind
<1>4. PlatformTools \subseteq Done(at)
  <2> SUFFICES ASSUME NEW t \in PlatformTools PROVE t \in Done(at)
    OBVIOUS
  <2>1. PICK i \in DOMAIN Workflow : Workflow[i] = [act |-> "prepare", tool |-> t]
    BY <1>2, StepFacts
  <2>2. i < at
    BY <1>1, <1>2, <2>1, PhaseFacts
  <2> QED
    BY <2>1, <2>2 DEF Done, DoneIn
<1>5. secret /\ PlatformTools \subseteq passed
  BY <1>1, <1>3, <1>4 DEF JobInv, StepsInv
<1>6. Incomplete = {}
  <2> SUFFICES ASSUME NEW f \in Files, Tree!Writers(f) \cap PlatformTools # {}
               PROVE  Tree!Holds(f, Tree!Writers(f))
    BY DEF Incomplete
  <2>1. Tree!Writers(f) \subseteq PlatformTools
    BY <1>2, StatusFacts DEF Tree!Writers
  <2> QED
    BY <1>5, <2>1, TreePassedIsWhole DEF Tree!PassedIsWhole
<1>7. built' = [incomplete |-> {}, unfit |-> {}, signed |-> TRUE]
  <2>1. Bundled = {} /\ Absent = {}
    BY <1>6 DEF Bundled, Absent
  <2>2. PICK unfit \in {Absent, Absent \cup (Bundled \cap {"ConnectionLibrary"})} :
           built' = [incomplete |-> Incomplete, unfit |-> unfit, signed |-> secret]
    BY DEF Build
  <2>3. unfit = {}
    BY <2>1, <2>2
  <2>4. secret = TRUE
    BY <1>2, <1>5
  <2> QED
    BY <1>6, <2>2, <2>3, <2>4
<1> QED
  BY <1>1, <1>2, <1>5, <1>7, PassingPreserves

LEMMA CollectPreserves ==
    ASSUME JobInv, Collect PROVE JobInv'
<1>1. /\ phase = "steps" /\ running = NoTool /\ Workflow[at].act = "collect" /\ UNCHANGED still
      /\ passed' = passed /\ secret' = secret /\ built' = built /\ accident' = accident
  BY DEF Collect, Doing, still, tree
<1>2. {secret, staged, accident} \subseteq BOOLEAN
  BY DEF JobInv, JobOK
<1>3. CASE StepDone /\ staged' = TRUE
  BY <1>1, <1>2, <1>3, PassingPreserves
<1>4. CASE StepFails /\ UNCHANGED staged /\ ~Acceptable
  <2>1. accident
    BY <1>4, QuietProduct DEF Collect
  <2> QED
    BY <1>1, <1>2, <1>4, <2>1, FailingPreserves
<1> QED
  BY <1>3, <1>4 DEF Collect

(* A tool that starts is the one of the step, or was called by hand.       *)
LEMMA StartingPreserves ==
    ASSUME JobInv, NEW t \in ToolNames, phase = "steps", running = NoTool, StartWriting(t),
           UNCHANGED <<platform, at, phase, failed, secret, lost, built, staged, published>>,
           \/ ~byHand' /\ Workflow[at] = [act |-> "prepare", tool |-> t] /\ accident' = accident
           \/ byHand' /\ accident',
           {byHand', accident'} \subseteq BOOLEAN
    PROVE  JobInv'
<1>1. /\ platform' = platform /\ at' = at /\ phase' = phase /\ failed' = failed
      /\ secret' = secret /\ lost' = lost /\ built' = built /\ staged' = staged
      /\ published' = published /\ edits' = edits /\ torn' = torn /\ passed' = passed
      /\ running' = t /\ left' = Tools[t].writes
  BY DEF StartWriting
<1>2. JobOK'
  BY <1>1 DEF JobInv, JobOK, Workflow
<1>3. LeftOK'
  BY <1>1, ToolFacts DEF LeftOK
<1>4. RunInv'
  <2>1. t # NoTool /\ Workflow' = Workflow
    BY <1>1, ToolFacts DEF Workflow
  <2> QED
    BY <1>1, <2>1 DEF RunInv
<1>5. Done(at)' = Done(at) /\ \A act : Behind(act)' <=> Behind(act)
  BY <1>1 DEF Done, DoneIn, Behind, Workflow
<1>6. StepsInv'
  BY <1>1, <1>5 DEF JobInv, StepsInv
<1>7. QuietInv'
  <2> SUFFICES ASSUME ~accident'
               PROVE  /\ ~failed' /\ torn' = {} /\ (secret' => Behind("secret")')
                      /\ staged' => Behind("collect")'
                      /\ \A f \in Files : edits'[f] = {u \in Tree!Writers(f) :
                            u \in Done(at)' \/ (u = running' /\ f \notin ToSet(left)')}
    BY DEF QuietInv, Tree!Writers
  <2>1. accident' = accident /\ \A f \in Files : t \in Tree!Writers(f) => f \in ToSet(left)'
    BY <1>1, ToolFacts DEF Tree!Writers
  <2>2. /\ ~failed /\ torn = {} /\ (secret => Behind("secret")) /\ (staged => Behind("collect"))
    BY <2>1 DEF JobInv, QuietInv
  <2>3. \A f \in Files : edits[f] = {u \in Tree!Writers(f) : u \in Done(at)}
    BY <2>1, QuietTree
  <2> QED
    BY <1>1, <1>5, <2>1, <2>2, <2>3
<1>8. PublishedIsWhole' /\ SecretsRemoved'
  BY <1>1 DEF JobInv, PublishedIsWhole, SecretsRemoved
<1> QED
  BY <1>2, <1>3, <1>4, <1>6, <1>7, <1>8 DEF JobInv

LEMMA PrepareToolPreserves ==
    ASSUME JobInv, PrepareTool PROVE JobInv'
<1>1. /\ phase = "steps" /\ running = NoTool /\ Workflow[at].act = "prepare"
      /\ secret' = secret /\ staged' = staged /\ built' = built /\ accident' = accident
      /\ platform' = platform /\ byHand' = byHand /\ lost' = lost /\ published' = published
  BY DEF PrepareTool, Doing
<1>2. JobOK /\ at \in DOMAIN Workflow /\ {secret, staged, accident, byHand} \subseteq BOOLEAN
  BY DEF JobInv, JobOK
<1>3. CASE ~MayPrepare(ThisTool) /\ StepFails /\ UNCHANGED tree
  <2>1. accident
    BY <1>3, QuietPrepares DEF PrepareTool
  <2>2. UNCHANGED still
    BY <1>1, <1>3 DEF still, tree
  <2> QED
    BY <1>1, <1>2, <1>3, <2>1, <2>2, FailingPreserves
<1>4. CASE StartWriting(ThisTool) /\ UNCHANGED <<at, phase, failed>>
  <2>1. ThisTool \in ToolNames /\ Workflow[at] = [act |-> "prepare", tool |-> ThisTool]
    <3>1. Workflow[at] = [act |-> Workflow[at].act, tool |-> Workflow[at].tool]
      BY <1>2, StepRecord
    <3>2. Workflow[at].tool \in ToolNames
      BY <1>1, <1>2, StepFacts
    <3> QED
      BY <1>1, <3>1, <3>2 DEF ThisTool
  <2>2. ~byHand
    BY <1>1 DEF JobInv, RunInv
  <2> QED
    BY <1>1, <1>2, <1>4, <2>1, <2>2, StartingPreserves
<1> QED
  BY <1>3, <1>4 DEF PrepareTool

LEMMA StrayPreserves ==
    ASSUME JobInv, NEW t \in PlatformTools, Stray(t) PROVE JobInv'
<1>1. t \in ToolNames
  BY StepFacts DEF JobInv
<1> QED
  BY <1>1, StartingPreserves DEF Stray

(* What is left after a file, and that it was one of the running tool's.   *)
LEMMA LeftAfter ==
    ASSUME LeftOK, left # <<>>
    PROVE  /\ Head(left) \in Files /\ Head(left) \in ToSet(left)
           /\ Tail(left) \in Seq(Files) /\ IsInjective(Tail(left))
           /\ ToSet(Tail(left)) = ToSet(left) \ {Head(left)}
<1> DEFINE n == Len(left)
<1>1. left \in Seq(Files) /\ n \in Nat /\ DOMAIN left = 1..n /\ n # 0 /\ Head(left) = left[1]
  BY DEF LeftOK
<1>2. /\ Tail(left) \in Seq(Files) /\ DOMAIN Tail(left) = 1..(n - 1)
      /\ \A i \in 1..(n - 1) : Tail(left)[i] = left[i + 1]
  BY <1>1
<1>3. \A i, k \in 1..n : left[i] = left[k] => i = k
  BY <1>1 DEF LeftOK, IsInjective
<1> HIDE DEF n
<1>4. IsInjective(Tail(left))
  BY <1>1, <1>2, <1>3 DEF IsInjective
<1>5. ASSUME NEW f PROVE f \in ToSet(Tail(left)) <=> f \in ToSet(left) /\ f # left[1]
  <2>1. f \in ToSet(left) <=> \E i \in 1..n : f = left[i]
    BY <1>1 DEF ToSet
  <2>2. f \in ToSet(Tail(left)) <=> \E i \in 1..(n - 1) : f = left[i + 1]
    BY <1>2 DEF ToSet
  <2>3. ASSUME NEW i \in 1..n, f = left[i], f # left[1] PROVE \E k \in 1..(n - 1) : f = left[k + 1]
    <3>1. i - 1 \in 1..(n - 1) /\ f = left[(i - 1) + 1]
      BY <1>1, <2>3
    <3> QED
      BY <3>1
  <2>4. ASSUME NEW k \in 1..(n - 1), f = left[k + 1] PROVE k + 1 \in 1..n /\ f # left[1]
    BY <1>1, <1>3, <2>4
  <2> QED
    BY <2>1, <2>2, <2>3, <2>4
<1>6. Head(left) \in Files /\ Head(left) \in ToSet(left)
  BY <1>1 DEF ToSet
<1> QED
  BY <1>1, <1>2, <1>4, <1>5, <1>6

LEMMA WriteFilePreserves ==
    ASSUME TreeIInv, JobInv, WriteFile PROVE JobInv'
<1> DEFINE f == Head(left)
<1>1. /\ platform' = platform /\ at' = at /\ phase' = phase /\ failed' = failed
      /\ secret' = secret /\ lost' = lost /\ built' = built /\ staged' = staged
      /\ byHand' = byHand /\ accident' = accident
      /\ published' = published /\ torn' = torn /\ passed' = passed /\ running' = running
      /\ left # <<>> /\ left' = Tail(left) /\ edits' = [edits EXCEPT ![f] = @ \cup {running}]
  BY DEF WriteFile, job
<1>2. LeftOK /\ running # NoTool
  BY <1>1 DEF JobInv, LeftOK
<1>3. /\ f \in Files /\ f \in ToSet(left) /\ ToSet(left)' = ToSet(left) \ {f}
      /\ LeftOK'
  BY <1>1, <1>2, LeftAfter DEF LeftOK
<1>4. running \in ToolNames /\ f \in WriteSets[running] /\ running \in Tree!Writers(f)
  BY <1>2, <1>3 DEF TreeIInv, TreeTypeOK, Tree!Writers
<1> HIDE DEF f
<1>5. JobOK' /\ RunInv' /\ PublishedIsWhole' /\ SecretsRemoved'
  BY <1>1 DEF JobInv, JobOK, RunInv, PublishedIsWhole, SecretsRemoved, Workflow
<1>6. Done(at)' = Done(at) /\ \A act : Behind(act)' <=> Behind(act)
  BY <1>1 DEF Done, DoneIn, Behind, Workflow
<1>7. StepsInv'
  BY <1>1, <1>6 DEF JobInv, StepsInv
<1>8. QuietInv'
  <2> SUFFICES ASSUME ~accident, phase = "steps", NEW g \in Files
               PROVE  edits'[g] = {u \in Tree!Writers(g) :
                            u \in Done(at) \/ (u = running /\ g \notin ToSet(left) \ {f})}
    BY <1>1, <1>3, <1>6 DEF JobInv, QuietInv, Tree!Writers
  <2>1. edits[g] = {u \in Tree!Writers(g) : u \in Done(at) \/ (u = running /\ g \notin ToSet(left))}
    BY DEF JobInv, QuietInv
  <2>2. edits'[g] = IF g = f THEN edits[g] \cup {running} ELSE edits[g]
    BY <1>1 DEF TreeIInv, TreeTypeOK
  <2> QED
    BY <1>4, <2>1, <2>2
<1> QED
  BY <1>3, <1>5, <1>7, <1>8 DEF JobInv

LEMMA FinishToolPreserves ==
    ASSUME TreeIInv, JobInv, FinishTool PROVE JobInv'
<1>1. /\ platform' = platform /\ secret' = secret /\ lost' = lost /\ built' = built
      /\ staged' = staged /\ accident' = accident /\ published' = published
      /\ edits' = edits /\ torn' = torn /\ left' = left /\ left = <<>>
      /\ running # NoTool /\ running' = NoTool /\ byHand' = FALSE
      /\ passed' = passed \cup {running}
      /\ IF byHand THEN at' = at ELSE at' = at + 1
      /\ phase' = phase /\ failed' = failed
  BY DEF FinishTool, StepDone
<1>2. JobOK /\ at \in DOMAIN Workflow /\ byHand \in BOOLEAN /\ phase = "steps"
  BY <1>1 DEF JobInv, JobOK, RunInv
<1>3. ToSet(left) = {} /\ ToSet(left)' = {}
  BY <1>1 DEF ToSet
<1>4. LeftOK' /\ RunInv'
  BY <1>1 DEF JobInv, LeftOK, RunInv
<1>5. PublishedIsWhole' /\ SecretsRemoved'
  BY <1>1 DEF JobInv, PublishedIsWhole, SecretsRemoved
<1>6. CASE byHand
  <2>1. accident
    BY <1>6 DEF JobInv, RunInv
  <2>2. Workflow' = Workflow /\ at' = at
    BY <1>1, <1>6 DEF Workflow
  <2>3. JobOK'
    BY <1>1, <1>2, <2>2 DEF JobOK
  <2>4. Done(at)' = Done(at) /\ \A act : Behind(act)' <=> Behind(act)
    BY <2>2 DEF Done, Behind
  <2>5. StepsInv' /\ QuietInv'
    BY <1>1, <2>1, <2>4 DEF JobInv, StepsInv, QuietInv
  <2> QED
    BY <1>4, <1>5, <2>3, <2>5 DEF JobInv
<1>7. CASE ~byHand
  <2>1. Workflow[at] = [act |-> "prepare", tool |-> running]
    BY <1>1, <1>7 DEF JobInv, RunInv
  <2>2. /\ at' \in DOMAIN Workflow' /\ Done(at)' = Done(at) \cup {running}
        /\ \A act : Behind(act)' <=> Behind(act) \/ act = "prepare"
    BY <1>1, <1>2, <1>7, <2>1, Moving
  <2>3. JobOK'
    BY <1>1, <1>2, <2>2 DEF JobOK
  <2>4. StepsInv'
    BY <1>1, <2>2 DEF JobInv, StepsInv
  <2>5. \A f \in Files : NoTool \notin Tree!Writers(f)
    BY ToolsAssumption DEF Tree!WellFormed, Tree!Writers
  <2>6. QuietInv'
    BY <1>1, <1>3, <2>2, <2>5 DEF JobInv, QuietInv, Tree!Writers
  <2> QED
    BY <1>4, <1>5, <2>3, <2>4, <2>6 DEF JobInv
<1> QED
  BY <1>2, <1>6, <1>7

LEMMA UploadPreserves ==
    ASSUME JobInv, Upload PROVE JobInv'
<1>1. /\ platform' = platform /\ at' = at /\ failed' = failed /\ secret' = secret /\ lost' = lost
      /\ staged' = staged /\ accident' = accident /\ running' = running /\ left' = left
      /\ byHand' = byHand
      /\ phase = "steps" /\ phase' = "cleanup" /\ published' = published \cup {built}
      /\ Workflow[at].act = "upload" /\ running = NoTool
  BY DEF Upload, Doing, tree
<1>2. JobOK /\ at \in DOMAIN Workflow
  BY DEF JobInv, JobOK
<1>3. JobOK'
  BY <1>1, <1>2 DEF JobOK, Workflow
<1>4. LeftOK' /\ RunInv' /\ StepsInv' /\ QuietInv' /\ SecretsRemoved'
  BY <1>1 DEF JobInv, LeftOK, RunInv, StepsInv, QuietInv, SecretsRemoved
<1>5. Behind("build")
  <2>1. PICK i \in DOMAIN Workflow : Workflow[i].act = "build"
    BY <1>2, PhaseFacts
  <2>2. i < at
    BY <1>1, <1>2, <2>1, PhaseFacts
  <2> QED
    BY <2>1, <2>2 DEF Behind
<1>6. PublishedIsWhole'
  BY <1>1, <1>5 DEF JobInv, StepsInv, PublishedIsWhole
<1> QED
  BY <1>3, <1>4, <1>6 DEF JobInv

LEMMA CleanUpPreserves ==
    ASSUME JobInv, CleanUp PROVE JobInv'
<1>1. /\ platform' = platform /\ at' = at /\ failed' = failed /\ secret' = FALSE /\ lost' = FALSE
      /\ staged' = staged /\ accident' = accident /\ running' = running /\ left' = left
      /\ byHand' = byHand /\ published' = published /\ phase = "cleanup" /\ phase' = "over"
  BY DEF CleanUp, tree
<1>2. JobOK' /\ LeftOK'
  BY <1>1 DEF JobInv, JobOK, LeftOK, Workflow
<1>3. RunInv' /\ StepsInv' /\ QuietInv' /\ SecretsRemoved' /\ PublishedIsWhole'
  BY <1>1 DEF JobInv, RunInv, StepsInv, QuietInv, SecretsRemoved, PublishedIsWhole
<1> QED
  BY <1>2, <1>3 DEF JobInv

LEMMA EmptyLeft ==
    ASSUME left' = <<>> PROVE left' \in Seq(Files) /\ IsInjective(left')
BY DEF IsInjective

LEMMA DyingPreserves ==
    ASSUME JobInv, StepDies \/ RunnerLost PROVE JobInv'
<1>1. /\ platform' = platform /\ at' = at /\ failed' = TRUE /\ secret' = secret
      /\ staged' = staged /\ accident' = TRUE /\ running' = NoTool /\ left' = <<>>
      /\ byHand' = FALSE /\ published' = published
      /\ \/ phase' = "cleanup" /\ lost' = lost
         \/ phase' = "over" /\ lost' = TRUE
  BY DEF StepDies, RunnerLost, Cut, StepFails
<1>2. JobOK' /\ LeftOK'
  BY <1>1, EmptyLeft DEF JobInv, JobOK, LeftOK, Workflow
<1>3. RunInv' /\ StepsInv' /\ QuietInv' /\ SecretsRemoved' /\ PublishedIsWhole'
  BY <1>1 DEF JobInv, RunInv, StepsInv, QuietInv, SecretsRemoved, PublishedIsWhole
<1> QED
  BY <1>2, <1>3 DEF JobInv

(* At its first step a job has nothing behind it.                          *)
LEMMA FirstStep ==
    ASSUME NEW p \in {"android", "windows"}
    PROVE  /\ 1 \in DOMAIN WorkflowOf(p) /\ DoneIn(WorkflowOf(p), 1) = {}
           /\ \A k \in DOMAIN WorkflowOf(p) : ~(k < 1)
<1> DEFINE w == WorkflowOf(p)
<1>1. w \in Seq([act : STRING, tool : STRING]) /\ w # <<>>
  BY StepsAssumption
<1> HIDE DEF w
<1>2. 1 \in DOMAIN w /\ \A k \in DOMAIN w : ~(k < 1)
  BY <1>1
<1>3. DoneIn(w, 1) = {}
  BY <1>2 DEF DoneIn
<1> QED
  BY <1>2, <1>3 DEF w

LEMMA RestartPreserves ==
    ASSUME JobInv, NewRunner \/ SameRunner PROVE JobInv'
<1>1. /\ platform' = platform /\ at' = 1 /\ phase' = "steps" /\ failed' = FALSE
      /\ byHand' = byHand /\ published' = published /\ phase = "over"
  BY DEF NewRunner, SameRunner, Restart
<1>2. JobOK /\ running = NoTool /\ ~byHand
  BY <1>1 DEF JobInv, RunInv
<1>3. Workflow' = Workflow /\ Workflow = WorkflowOf(platform)
  BY <1>1 DEF Workflow
<1>4. 1 \in DOMAIN Workflow /\ Done(at)' = {} /\ \A act : ~Behind(act)'
  BY <1>1, <1>2, <1>3, FirstStep DEF JobOK, Done, Behind
<1>5. CASE NewRunner
  <2>1. /\ edits' = [f \in Files |-> {}] /\ torn' = {} /\ running' = NoTool /\ left' = <<>>
        /\ secret' = FALSE /\ lost' = FALSE /\ staged' = FALSE /\ accident' = FALSE
    BY <1>5 DEF NewRunner
  <2>2. JobOK' /\ LeftOK' /\ RunInv' /\ StepsInv'
    BY <1>1, <1>2, <1>3, <1>4, <2>1, EmptyLeft DEF JobOK, LeftOK, RunInv, StepsInv
  <2>3. \A f \in Files : NoTool \notin Tree!Writers(f)
    BY ToolsAssumption DEF Tree!WellFormed, Tree!Writers
  <2>4. QuietInv'
    BY <1>1, <1>4, <2>1, <2>3 DEF QuietInv, Tree!Writers
  <2>5. PublishedIsWhole' /\ SecretsRemoved'
    BY <1>1 DEF JobInv, PublishedIsWhole, SecretsRemoved
  <2> QED
    BY <2>2, <2>4, <2>5 DEF JobInv
<1>6. CASE SameRunner
  <2>1. /\ running' = running /\ left' = left /\ secret' = secret /\ lost' = lost
        /\ staged' = staged /\ accident' = TRUE
    BY <1>6 DEF SameRunner, tree
  <2>2. JobOK' /\ LeftOK'
    BY <1>1, <1>2, <1>3, <1>4, <2>1 DEF JobInv, JobOK, LeftOK
  <2>3. RunInv' /\ StepsInv' /\ QuietInv' /\ PublishedIsWhole' /\ SecretsRemoved'
    BY <1>1, <1>2, <1>4, <2>1
       DEF JobInv, RunInv, StepsInv, QuietInv, PublishedIsWhole, SecretsRemoved
  <2> QED
    BY <2>2, <2>3 DEF JobInv
<1> QED
  BY <1>5, <1>6

LEMMA InitSound ==
    ASSUME Init PROVE JobInv
<1>1. /\ platform \in {"android", "windows"} /\ at = 1 /\ phase = "steps" /\ failed = FALSE
      /\ byHand = FALSE /\ published = {} /\ edits = [f \in Files |-> {}] /\ torn = {}
      /\ running = NoTool /\ left = <<>> /\ secret = FALSE /\ lost = FALSE /\ staged = FALSE
      /\ accident = FALSE
  BY DEF Init
<1>2. Workflow = WorkflowOf(platform)
  BY DEF Workflow
<1>3. 1 \in DOMAIN Workflow /\ Done(at) = {} /\ \A act : ~Behind(act)
  BY <1>1, <1>2, FirstStep DEF Done, Behind
<1>4. left \in Seq(Files) /\ IsInjective(left)
  BY <1>1 DEF IsInjective
<1>5. JobOK /\ LeftOK /\ RunInv /\ StepsInv
  BY <1>1, <1>3, <1>4 DEF JobOK, LeftOK, RunInv, StepsInv
<1>6. \A f \in Files : NoTool \notin Tree!Writers(f)
  BY ToolsAssumption DEF Tree!WellFormed, Tree!Writers
<1>7. QuietInv
  BY <1>1, <1>3, <1>6 DEF QuietInv, Tree!Writers
<1>8. PublishedIsWhole /\ SecretsRemoved
  BY <1>1 DEF PublishedIsWhole, SecretsRemoved
<1> QED
  BY <1>5, <1>7, <1>8 DEF JobInv

-----------------------------------------------------------------------------
(* Every step of the workflows is one that PreparedTree allows *)

LEMMA InitMaps ==
    ASSUME Init PROVE Tree!Init
<1>1. ToSet(left) = {}
  BY DEF Init, ToSet
<1> QED
  BY <1>1 DEF Init, Tree!Init, Tree!Pristine

(* What a script validates is everything it is going to write: the files   *)
(* it creates have no writer before it.                                    *)
LEMMA StartMaps ==
    ASSUME NEW t \in ToolNames, running = NoTool, MayPrepare(t), StartWriting(t)
    PROVE  Tree!Prepare(t)
<1>1. /\ running' = t /\ left' = Tools[t].writes /\ UNCHANGED <<edits, torn, passed>>
  BY DEF StartWriting
<1>2. ToSet(left)' = WriteSets[t]
  BY <1>1, ToolFacts
<1>3. ASSUME NEW f \in WriteSets[t] PROVE Tree!Holds(f, Tree!Pre(t, f))
  <2>1. CASE f \in Tools[t].creates
    <3>1. ~Exists(f) /\ Tree!Pre(t, f) = {}
      BY <2>1, ToolFacts DEF MayPrepare, Fresh
    <3> QED
      BY <3>1 DEF Exists, Tree!Holds
  <2>2. CASE f \notin Tools[t].creates
    BY <1>3, <2>2 DEF MayPrepare, Inputs
  <2> QED
    BY <2>1, <2>2
<1> QED
  BY <1>1, <1>2, <1>3 DEF Tree!Prepare

LEMMA WriteMaps ==
    ASSUME JobInv, WriteFile PROVE \E f \in Files : Tree!Write(f)
<1>1. /\ left # <<>> /\ left' = Tail(left) /\ edits' = [edits EXCEPT ![Head(left)] = @ \cup {running}]
      /\ torn' = torn /\ running' = running /\ passed' = passed
  BY DEF WriteFile
<1>2. LeftOK
  BY DEF JobInv
<1>3. /\ Head(left) \in Files /\ Head(left) \in ToSet(left)
      /\ ToSet(left)' = ToSet(left) \ {Head(left)}
  BY <1>1, <1>2, LeftAfter
<1> QED
  BY <1>1, <1>3 DEF Tree!Write

LEMMA FinishMaps ==
    ASSUME FinishTool PROVE Tree!Finish
<1>1. ToSet(left) = {} /\ ToSet(left)' = {}
  BY DEF FinishTool, ToSet
<1> QED
  BY <1>1 DEF FinishTool, Tree!Finish

(* A tool is checked when it has reported success, so that a check that    *)
(* sees less than everything adds nothing.                                 *)
LEMMA CheckMaps ==
    ASSUME JobInv, CheckTool PROVE UNCHANGED Tree!vars
<1>1. JobOK /\ at \in DOMAIN Workflow /\ phase = "steps" /\ Workflow[at].act = "check"
  BY DEF JobInv, JobOK, CheckTool, Doing
<1>2. at > 1 /\ Workflow[at - 1] = [act |-> "prepare", tool |-> ThisTool]
  BY <1>1, StepFacts DEF ThisTool
<1>3. at - 1 \in DOMAIN Workflow /\ at - 1 < at
  BY <1>1, <1>2, StepFacts
<1>4. ThisTool \in Done(at)
  BY <1>2, <1>3 DEF Done, DoneIn
<1>5. ThisTool \in passed
  BY <1>1, <1>4 DEF JobInv, StepsInv
<1> QED
  BY <1>5 DEF CheckTool, Tree!vars

(* A process that dies was writing, or there was none.                     *)
LEMMA CutMaps ==
    ASSUME JobInv, Cut PROVE Tree!Interrupt \/ UNCHANGED Tree!vars
<1>1. /\ running' = NoTool /\ left' = <<>> /\ UNCHANGED <<edits, passed>>
      /\ torn' = torn \/ (left # <<>> /\ torn' = torn \cup {Head(left)})
  BY DEF Cut
<1>2. ToSet(left)' = {}
  BY <1>1 DEF ToSet
<1>3. CASE running = NoTool
  <2>1. left = <<>>
    BY <1>3 DEF JobInv, LeftOK
  <2> QED
    BY <1>1, <1>3, <2>1 DEF Tree!vars
<1>4. CASE running # NoTool
  <2>1. PICK hit \in SUBSET ToSet(left) : torn' = torn \cup hit /\ \A f, g \in hit : f = g
    <3>1. CASE torn' = torn
      <4>1. {} \in SUBSET ToSet(left) /\ torn' = torn \cup {} /\ \A f, g \in {} : f = g
        BY <3>1
      <4> QED
        BY <4>1
    <3>2. CASE left # <<>> /\ torn' = torn \cup {Head(left)}
      <4>1. Head(left) \in ToSet(left)
        BY <3>2, LeftAfter DEF JobInv
      <4>2. /\ {Head(left)} \in SUBSET ToSet(left) /\ torn' = torn \cup {Head(left)}
            /\ \A f, g \in {Head(left)} : f = g
        BY <3>2, <4>1
      <4> QED
        BY <4>2
    <3> QED
      BY <1>1, <3>1, <3>2
  <2> QED
    BY <1>1, <1>2, <1>4, <2>1 DEF Tree!Interrupt
<1> QED
  BY <1>3, <1>4

LEMMA RunnerMaps ==
    ASSUME NewRunner PROVE Tree!Discard
<1>1. ToSet(left)' = {}
  BY DEF NewRunner, ToSet
<1> QED
  BY <1>1 DEF NewRunner, Tree!Discard, Tree!Pristine

LEMMA NextMaps ==
    ASSUME JobInv, [Next]_vars PROVE [Tree!Next]_(Tree!vars)
<1>1. JobOK
  BY DEF JobInv
<1>2. CASE ValidateInputs \/ WriteSecret \/ RequireClean \/ TryTool \/ Build \/ Collect \/ Upload
           \/ CleanUp \/ SameRunner \/ UNCHANGED vars
  BY <1>2 DEF ValidateInputs, WriteSecret, RequireClean, TryTool, Build, Collect, Upload, CleanUp,
              SameRunner, vars, tree, Tree!vars
<1>3. CASE PrepareTool
  <2>1. running = NoTool /\ ThisTool \in ToolNames
    BY <1>1, <1>3, StepFacts DEF PrepareTool, Doing, ThisTool, JobOK
  <2>2. CASE MayPrepare(ThisTool) /\ StartWriting(ThisTool)
    BY <2>1, <2>2, StartMaps DEF Tree!Next
  <2>3. CASE UNCHANGED tree
    BY <2>3 DEF tree, Tree!vars
  <2> QED
    BY <1>3, <2>2, <2>3 DEF PrepareTool
<1>4. ASSUME NEW t \in PlatformTools, Stray(t) PROVE Tree!Next
  <2>1. t \in ToolNames
    BY <1>1, StepFacts
  <2> QED
    BY <1>4, <2>1, StartMaps DEF Stray, Tree!Next
<1>5. CASE WriteFile
  BY <1>5, WriteMaps DEF Tree!Next
<1>6. CASE FinishTool
  BY <1>6, FinishMaps DEF Tree!Next
<1>7. CASE CheckTool
  BY <1>7, CheckMaps
<1>8. CASE StepDies \/ RunnerLost
  BY <1>8, CutMaps DEF StepDies, RunnerLost, Tree!Next
<1>9. CASE NewRunner
  BY <1>9, RunnerMaps DEF Tree!Next
<1> QED
  BY <1>2, <1>3, <1>4, <1>5, <1>6, <1>7, <1>8, <1>9 DEF Next

LEMMA NextPreserves ==
    ASSUME TreeIInv, JobInv, [Next]_vars PROVE TreeIInv' /\ JobInv'
<1>1. TreeIInv'
  BY NextMaps, TreeNextPreserves, ToolsAssumption
<1>2. CASE UNCHANGED vars
  <2>1. JobOK' /\ LeftOK' /\ RunInv' /\ PublishedIsWhole' /\ SecretsRemoved'
    BY <1>2 DEF vars, tree, job, JobInv, JobOK, LeftOK, RunInv, PublishedIsWhole, SecretsRemoved,
                Workflow
  <2>2. StepsInv' /\ QuietInv'
    BY <1>2 DEF vars, tree, job, JobInv, StepsInv, QuietInv, Done, DoneIn, Behind, Workflow,
                Tree!Writers
  <2> QED
    BY <1>1, <2>1, <2>2 DEF JobInv
<1>3. CASE ValidateInputs \/ WriteSecret \/ RequireClean \/ TryTool \/ PrepareTool \/ CheckTool
  BY <1>1, <1>3, ValidateInputsPreserves, WriteSecretPreserves, RequireCleanPreserves, TryToolPreserves,
     PrepareToolPreserves, CheckToolPreserves
<1>4. CASE WriteFile \/ FinishTool \/ Build \/ Collect \/ Upload \/ CleanUp
  BY <1>1, <1>4, WriteFilePreserves, FinishToolPreserves, BuildPreserves, CollectPreserves,
     UploadPreserves, CleanUpPreserves
<1>5. CASE StepDies \/ RunnerLost \/ (\E t \in PlatformTools : Stray(t)) \/ NewRunner \/ SameRunner
  BY <1>1, <1>5, DyingPreserves, StrayPreserves, RestartPreserves
<1> QED
  BY <1>1, <1>2, <1>3, <1>4, <1>5 DEF Next

-----------------------------------------------------------------------------
(* The invariants of the checkout and of the job hold in every state.      *)
THEOREM JobInvariance == Spec => [](TreeIInv /\ JobInv)
<1>1. Init => TreeIInv /\ JobInv
  BY InitSound, InitMaps, TreePristineIsSound, ToolsAssumption DEF Tree!Init
<1>2. TreeIInv /\ JobInv /\ [Next]_vars => (TreeIInv /\ JobInv)'
  BY NextPreserves
<1> QED
  BY <1>1, <1>2, PTL DEF Spec

(* A run that explores the jobs and the trials is a run of the jobs.       *)
LEMMA ReleaseRunsJobs == ReleaseSpec => Spec
<1>1. ReleaseInit => Init
  BY DEF ReleaseInit
<1>2. [ReleaseNext]_<<vars, trialVars, part>> => [Next]_vars
  BY DEF ReleaseNext
<1> QED
  BY <1>1, <1>2, PTL DEF ReleaseSpec, Spec

(* However often jobs are repeated, whatever dies or is called out of      *)
(* turn: nothing is published but what every script of the workflow was    *)
(* applied to in full, signed with the owner's secret.                     *)
THEOREM WholePublished == ReleaseSpec => []PublishedIsWhole
<1>1. JobInv => PublishedIsWhole
  BY DEF JobInv
<1> QED
  BY <1>1, ReleaseRunsJobs, JobInvariance, PTL

(* A job that nothing disturbs is never refused: by a pin, by git status,  *)
(* by a check, or when its product is collected.                           *)
THEOREM ReviewedOrderAlwaysPasses == ReleaseSpec => []ReviewedOrderPasses
<1>1. JobInv => ReviewedOrderPasses
  BY DEF JobInv, QuietInv, ReviewedOrderPasses
<1> QED
  BY <1>1, ReleaseRunsJobs, JobInvariance, PTL

(* A job that is over has removed its secret, unless its runner was lost.  *)
THEOREM SecretsAlwaysRemoved == ReleaseSpec => []SecretsRemoved
<1>1. JobInv => SecretsRemoved
  BY DEF JobInv
<1> QED
  BY <1>1, ReleaseRunsJobs, JobInvariance, PTL

(* The workflows, their scripts and the accidents around them keep the     *)
(* promise of PreparedTree, step by step.                                  *)
THEOREM JobsImplementTree == ReleaseSpec => ImplementsPreparedTree
<1>1. Init => Tree!Init
  BY InitMaps
<1>2. JobInv /\ [Next]_vars => [Tree!Next]_(Tree!vars)
  BY NextMaps
<1> QED
  BY <1>1, <1>2, ReleaseRunsJobs, JobInvariance, PTL DEF Spec, ImplementsPreparedTree, Tree!Spec
-----------------------------------------------------------------------------
(* The programs of the scripts *)

(* Only the sandbox meets a page that waits for a server, and it never     *)
(* asks for one; the overlays do not lead to the form of the test servers. *)
SoundFor(name, s) ==
    /\ s.answers \subseteq Trial!Pages /\ s.needs \subseteq Trial!Pages
    /\ "waiting" \notin s.meet
    /\ "testphone" \in s.answers => s.meet = {}
    /\ s.see = {"testphone"} => s.needs = Trial!Pages /\ s.look
    /\ name = "sandbox" => "waiting" \notin s.see /\ s.look /\ s.needs = Trial!Pages
    /\ name # "sandbox" => "waiting" \notin s.answers /\ s.act \notin {"number", "digit"}
    /\ ~s.look => s.mark = {} /\ s.needs = Trial!Pages
    /\ s.late \subseteq {"othercode"} /\ (s.see = {"testphone"} => s.late = {})
    /\ s.needs # Trial!Pages => s.mark = {} \/ (name = "client" /\ s.mark = {"launcher_entry"})

Sound(name, program) ==
    \E S : program \in Seq(S) /\ \A s \in S : SoundFor(name, s)

ProgramIsSound ==
    /\ Sound(script, Trial!Program)
    /\ 1 \in DOMAIN Trial!Program
    /\ Trial!Program[1].act = "start" /\ Trial!Program[1].needs = Trial!Pages
    /\ \A i \in DOMAIN Trial!Program :
          ~Trial!Program[i].look /\ i + 1 \in DOMAIN Trial!Program =>
              /\ Trial!Program[i + 1].act \in {"start", "swipe"}
              /\ Trial!Program[i + 1].needs = Trial!Pages
    /\ \A i \in DOMAIN Trial!Program : Trial!Program[i].act \in {"number", "digit"} =>
          \E k \in 1..(i - 1) : Trial!Program[k].see = {"testphone"}
-----------------------------------------------------------------------------
(* The inductive invariant of a trial *)

Looking == {"dump", "read", "shot", "judge"}
Before  == {"prepare", "boot", "install"}
After   == {"report", "diagnose", "stop", "wait", "over"}

Shown == Trial!Pages \cup {"none", "broken"}

TrialOK ==
    /\ script \in {"sandbox", "client", "candidate"}
    /\ step \in Before \cup {"act"} \cup Looking \cup After
    /\ position \in 1..(Len(Trial!Program) + 1)
    /\ step \in Looking => position \in DOMAIN Trial!Program
    /\ step \in Before => position = 1 /\ page = "home"
    /\ {page, seen} \subseteq Trial!Pages
    /\ test \in BOOLEAN /\ raised \in BOOLEAN /\ cut \in BOOLEAN
    /\ look \in [attempts : Nat, failures : Nat, file : Shown]

(* What a look has found is what the device shows, unless the page was one *)
(* that moves on by itself; no script acts upon such a page.               *)
SightInv ==
    /\ "waiting" \in {page, seen, look.file} => script = "sandbox"
    /\ step = "act" =>
          /\ page # "waiting"
          /\ page = seen \/ position = 1 \/ ~Trial!Program[position - 1].look
    /\ step = "read" => look.file \in {page, "none", "broken", "waiting"}
    /\ step \in {"shot", "judge"} => seen \in {page, "waiting"}

(* Whoever is behind the form of the test servers has seen it.             *)
TestInv ==
    /\ "testphone" \in {page, seen, look.file} => test
    /\ \A i \in 1..(position - 1) : Trial!Program[i].see = {"testphone"} => test

(* The marks of the steps behind are there, but for the one step that may  *)
(* be left out; and there are no others.                                   *)
Excused(i) == script = "client" /\ Trial!Program[i].mark = {"launcher_entry"}
ResultInv ==
    /\ step \in {"act"} \cup Looking =>
          /\ "install" \in result /\ result \subseteq Trial!Marks
          /\ \A i \in 1..(position - 1) : Trial!Program[i].mark \subseteq result \/ Excused(i)
    /\ step \in After /\ ~raised =>
          /\ result = Trial!Marks
          /\ step # "report" => verified = result

EndInv ==
    /\ step # "prepare" => input = "reviewed" \/ (step = "over" /\ raised)
    /\ step = "prepare" => process = "none"
    /\ step = "over" /\ ~cut => process \in {"none", "ended"} \/ (raised /\ process = "killed")

TrialInv == TrialOK /\ SightInv /\ TestInv /\ ResultInv /\ EndInv /\ harm = {}

LEMMA Joined ==
    ASSUME NEW name, NEW a, NEW b, Sound(name, a), Sound(name, b)
    PROVE  /\ Sound(name, a \o b) /\ Len(a \o b) = Len(a) + Len(b)
           /\ DOMAIN (a \o b) = 1..(Len(a) + Len(b)) /\ Len(a) \in Nat /\ Len(b) \in Nat
           /\ \A i \in 1..Len(a) : (a \o b)[i] = a[i]
           /\ \A i \in 1..Len(b) : (a \o b)[Len(a) + i] = b[i]
<1>1. PICK S : a \in Seq(S) /\ \A s \in S : SoundFor(name, s)
  BY DEF Sound
<1>2. PICK T : b \in Seq(T) /\ \A s \in T : SoundFor(name, s)
  BY DEF Sound
<1>3. a \in Seq(S \cup T) /\ b \in Seq(S \cup T)
  BY <1>1, <1>2
<1>4. a \o b \in Seq(S \cup T) /\ \A s \in S \cup T : SoundFor(name, s)
  BY <1>1, <1>2, <1>3
<1>5. Sound(name, a \o b)
  BY <1>4 DEF Sound
<1>6. /\ Len(a \o b) = Len(a) + Len(b) /\ Len(a) \in Nat /\ Len(b) \in Nat
      /\ DOMAIN (a \o b) = 1..(Len(a) + Len(b))
  BY <1>3
<1>7. /\ \A i \in 1..Len(a) : (a \o b)[i] = a[i]
      /\ \A i \in 1..Len(b) : (a \o b)[Len(a) + i] = b[i]
  BY <1>3
<1> QED
  BY <1>5, <1>6, <1>7

LEMMA Listed ==
    ASSUME NEW name, NEW n \in Nat, NEW program, program = [i \in 1..n |-> program[i]],
           \A i \in 1..n : SoundFor(name, program[i])
    PROVE  Sound(name, program)
<1> DEFINE S == {program[i] : i \in 1..n}
<1>1. program \in Seq(S)
  OBVIOUS
<1>2. \A s \in S : SoundFor(name, s)
  OBVIOUS
<1> HIDE DEF S
<1> QED
  BY <1>1, <1>2 DEF Sound

LEMMA PlainStep ==
    ASSUME NEW name, NEW act, NEW answers \in SUBSET Trial!Pages, NEW see,
           name = "sandbox" => "waiting" \notin see,
           name # "sandbox" => "waiting" \notin answers /\ act \notin {"number", "digit"}
    PROVE  SoundFor(name, Trial!Step(act, answers, see))
BY DEF Trial!Step, SoundFor

LEMMA PlainMarked ==
    ASSUME NEW name, NEW act, NEW answers \in SUBSET Trial!Pages, NEW see, NEW m,
           name = "sandbox" => "waiting" \notin see,
           name # "sandbox" => "waiting" \notin answers /\ act \notin {"number", "digit"}
    PROVE  SoundFor(name, Trial!Marked(Trial!Step(act, answers, see), m))
BY DEF Trial!Step, Trial!Marked, SoundFor

LEMMA OverlaidStep ==
    ASSUME NEW name, NEW s, \/ s = Trial!ToPhone("phone")
                            \/ s = [Trial!ToPhone("phone") EXCEPT !.answers = @ \cup {"debugphone"}]
    PROVE  SoundFor(name, s) /\ SoundFor(name, Trial!Marked(s, "login_screen"))
                             /\ SoundFor(name, Trial!Marked(s, "phone_form"))
<1>1. {"rationale", "permission", "phone", "debugphone"} \subseteq Trial!Pages
  BY DEF Trial!Pages, Trial!Own
<1>2. CASE s = Trial!ToPhone("phone")
  BY <1>1, <1>2 DEF Trial!ToPhone, Trial!Marked, Trial!Step, SoundFor
<1>3. CASE s = [Trial!ToPhone("phone") EXCEPT !.answers = @ \cup {"debugphone"}]
  BY <1>1, <1>3 DEF Trial!ToPhone, Trial!Marked, Trial!Step, SoundFor
<1> QED
  BY <1>2, <1>3

LEMMA OptionalStep ==
    ASSUME NEW act, act \notin {"number", "digit"}, NEW answers \in SUBSET Trial!Pages,
           "waiting" \notin answers, NEW needs \in SUBSET Trial!Pages, NEW see, see # {"testphone"}
    PROVE  SoundFor("client", Trial!If(needs, Trial!Step(act, answers, see)))
BY DEF Trial!If, Trial!Step, SoundFor

LEMMA OptionalMarked ==
    ASSUME NEW act, act \notin {"number", "digit"}, NEW answers \in SUBSET Trial!Pages,
           "waiting" \notin answers, NEW needs \in SUBSET Trial!Pages, NEW see, see # {"testphone"}
    PROVE  SoundFor("client", Trial!If(needs, Trial!Marked(Trial!Step(act, answers, see),
                                                           "launcher_entry")))
BY DEF Trial!If, Trial!Marked, Trial!Step, SoundFor

LEMMA EntryIsSound ==
    /\ Sound("sandbox", Trial!SandboxEntry) /\ Len(Trial!SandboxEntry) = 2
    /\ Trial!SandboxEntry[1].act = "start" /\ Trial!SandboxEntry[1].needs = Trial!Pages
    /\ Trial!SandboxEntry[2].act = "tap"
<1> DEFINE p == Trial!SandboxEntry
<1>1. /\ p[1] = Trial!Marked(Trial!Step("start", {"intro"}, {"intro"}), "launch")
      /\ p[2] = Trial!ToPhone("phone")
  BY DEF Trial!SandboxEntry
<1>2. p = [i \in 1..2 |-> p[i]] /\ Len(p) = 2
  BY DEF Trial!SandboxEntry
<1>3. {"intro"} \in SUBSET Trial!Pages
  BY DEF Trial!Pages, Trial!Own, Trial!Intro
<1>4. SoundFor("sandbox", p[1])
  BY <1>1, <1>3, PlainMarked
<1>5. SoundFor("sandbox", p[2])
  BY <1>1, OverlaidStep
<1> HIDE DEF p
<1>6. \A i \in 1..2 : SoundFor("sandbox", p[i])
  BY <1>4, <1>5
<1>7. Sound("sandbox", p)
  BY <1>2, <1>6, Listed
<1> QED
  BY <1>1, <1>2, <1>7 DEF p, Trial!Marked, Trial!Step, Trial!ToPhone

LEMMA NumberIsSound ==
    /\ Sound("sandbox", Trial!SandboxNumber) /\ Len(Trial!SandboxNumber) = 4
    /\ Trial!SandboxNumber[1].see = {"testphone"} /\ Trial!SandboxNumber[1].act = "tap"
<1> DEFINE p == Trial!SandboxNumber
<1>1. /\ p[1] = Trial!Marked(Trial!Step("tap", {"testphone"}, {"testphone"}), "test_backend_selected")
      /\ p[2] = Trial!Step("number", {"country"}, {"country", "testphone"})
      /\ p[3] = Trial!Step("number", {"number"}, {"number"})
      /\ p[4] = Trial!Step("tap", {"confirm"}, {"confirm"})
  BY DEF Trial!SandboxNumber
<1>2. p = [i \in 1..4 |-> p[i]] /\ Len(p) = 4
  BY DEF Trial!SandboxNumber
<1>3. /\ {"testphone"} \in SUBSET Trial!Pages /\ {"country"} \in SUBSET Trial!Pages
      /\ {"number"} \in SUBSET Trial!Pages /\ {"confirm"} \in SUBSET Trial!Pages
  BY DEF Trial!Pages, Trial!Own
<1> HIDE DEF p
<1>4. SoundFor("sandbox", p[1])
  BY <1>1, <1>3, PlainMarked
<1>5. SoundFor("sandbox", p[2]) /\ SoundFor("sandbox", p[3]) /\ SoundFor("sandbox", p[4])
  BY <1>1, <1>3, PlainStep
<1>6. \A i \in 1..4 : SoundFor("sandbox", p[i])
  BY <1>4, <1>5
<1>7. Sound("sandbox", p)
  BY <1>2, <1>6, Listed
<1> QED
  BY <1>1, <1>2, <1>7 DEF p, Trial!Marked, Trial!Step

LEMMA CodeIsSound == Sound("sandbox", Trial!SandboxCode)
<1> DEFINE p == Trial!SandboxCode
<1>1. /\ p[1] = [Trial!Marked(Trial!Step("number",
                        {"callrationale", "permission", "waiting", "code", "othercode", "limited"}, {"code"}),
                              "test_code_request")
                   EXCEPT !.meet = {"callrationale", "permission"}, !.turns = CodeTurns, !.late = {"othercode"},
                          !.wait = Trial!Pages \ {"callrationale", "permission", "code", "limited"}]
      /\ p[2] = Trial!Step("none", {}, {"code"})
      /\ p[3] = Trial!Step("digit", {"code1"}, {"code1"})
      /\ p[4] = Trial!Step("digit", {"code2"}, {"code2"})
      /\ p[5] = Trial!Step("digit", {"code3"}, {"code3"})
      /\ p[6] = Trial!Step("digit", {"code4"}, {"code4"})
      /\ p[7] = Trial!Marked(Trial!Step("digit", {"signup", "chats", "limited"}, {"signup"}),
                             "test_code_accepted")
  BY DEF Trial!SandboxCode
<1>2. p = [i \in 1..7 |-> p[i]]
  BY DEF Trial!SandboxCode
<1>3. /\ {"callrationale", "permission", "waiting", "code", "othercode", "limited"} \in SUBSET Trial!Pages
      /\ {} \in SUBSET Trial!Pages /\ {"code1"} \in SUBSET Trial!Pages
      /\ {"code2"} \in SUBSET Trial!Pages /\ {"code3"} \in SUBSET Trial!Pages
      /\ {"code4"} \in SUBSET Trial!Pages /\ {"signup", "chats", "limited"} \in SUBSET Trial!Pages
  BY DEF Trial!Pages, Trial!Own
<1> HIDE DEF p
<1>4. SoundFor("sandbox", p[1])
  BY <1>1, <1>3 DEF Trial!Marked, Trial!Step, SoundFor
<1>5. SoundFor("sandbox", p[2]) /\ SoundFor("sandbox", p[3]) /\ SoundFor("sandbox", p[4])
  BY <1>1, <1>3, PlainStep
<1>6. SoundFor("sandbox", p[5]) /\ SoundFor("sandbox", p[6])
  BY <1>1, <1>3, PlainStep
<1>7. SoundFor("sandbox", p[7])
  BY <1>1, <1>3, PlainMarked
<1>8. \A i \in 1..7 : SoundFor("sandbox", p[i])
  BY <1>4, <1>5, <1>6, <1>7
<1> QED
  BY <1>2, <1>8, Listed DEF p

LEMMA AccountIsSound == Sound("sandbox", Trial!SandboxAccount)
<1> DEFINE p == Trial!SandboxAccount
<1>1. /\ p[1] = Trial!Step("tap", {"named"}, {"named"})
      /\ p[2] = Trial!Step("tap", {"chats", "limited"}, {"chats"})
      /\ p[3] = Trial!Marked(Trial!Step("tap", {"menu"}, {"menu"}), "test_server_login")
      /\ p[4] = Trial!Step("start", {"chats", "intro"}, {"chats"})
      /\ p[5] = Trial!Marked(Trial!Step("tap", {"menu"}, {"menu"}), "cold_restart")
  BY DEF Trial!SandboxAccount
<1>2. p = [i \in 1..5 |-> p[i]]
  BY DEF Trial!SandboxAccount
<1>3. /\ {"named"} \in SUBSET Trial!Pages /\ {"chats", "limited"} \in SUBSET Trial!Pages
      /\ {"menu"} \in SUBSET Trial!Pages /\ {"chats", "intro"} \in SUBSET Trial!Pages
  BY DEF Trial!Pages, Trial!Own, Trial!Intro
<1> HIDE DEF p
<1>4. SoundFor("sandbox", p[1]) /\ SoundFor("sandbox", p[2]) /\ SoundFor("sandbox", p[4])
  BY <1>1, <1>3, PlainStep
<1>5. SoundFor("sandbox", p[3]) /\ SoundFor("sandbox", p[5])
  BY <1>1, <1>3, PlainMarked
<1>6. \A i \in 1..5 : SoundFor("sandbox", p[i])
  BY <1>4, <1>5
<1> QED
  BY <1>2, <1>6, Listed DEF p

LEMMA LauncherIsSound ==
    /\ Sound("client", Trial!ClientLauncher) /\ Len(Trial!ClientLauncher) = 7
    /\ \A i \in 1..7 : Trial!ClientLauncher[i].look
    /\ Trial!ClientLauncher[1].act = "start" /\ Trial!ClientLauncher[1].needs = Trial!Pages
<1> DEFINE p == Trial!ClientLauncher
           home == {"home", "drawer"}
<1>1. /\ p[1] = Trial!Step("start", {"home"}, {"home"})
      /\ p[2] = Trial!Step("tap", home, Trial!Pages)
      /\ p[3] = Trial!If({"home"}, Trial!Step("tap", home, Trial!Pages))
      /\ p[4] = Trial!If({"home"}, Trial!Step("start", home, Trial!Pages))
      /\ p[5] = Trial!If(Trial!Pages \ {"drawer"}, Trial!Step("start", {"recovered"}, Trial!Pages))
      /\ p[6] = Trial!If({"recovered"}, Trial!Step("tap", home, Trial!Pages))
      /\ p[7] = Trial!If({"drawer"},
                         Trial!Marked(Trial!Step("tap", {"intro"}, Trial!Own), "launcher_entry"))
  BY DEF Trial!ClientLauncher
<1>2. p = [i \in 1..7 |-> p[i]] /\ Len(p) = 7
  BY DEF Trial!ClientLauncher
<1>3. /\ home \in SUBSET Trial!Pages /\ {"home"} \in SUBSET Trial!Pages
      /\ {"recovered"} \in SUBSET Trial!Pages /\ {"drawer"} \in SUBSET Trial!Pages
      /\ {"intro"} \in SUBSET Trial!Pages /\ Trial!Pages \ {"drawer"} \in SUBSET Trial!Pages
      /\ "waiting" \notin home
  BY DEF Trial!Pages, Trial!Own, Trial!Intro
<1>4. Trial!Pages # {"testphone"} /\ Trial!Own # {"testphone"}
  BY DEF Trial!Pages, Trial!Own
<1> HIDE DEF p, home
<1>5. SoundFor("client", p[1]) /\ SoundFor("client", p[2])
  BY <1>1, <1>3, PlainStep
<1>6. SoundFor("client", p[3]) /\ SoundFor("client", p[4])
  BY <1>1, <1>3, <1>4, OptionalStep
<1>7. SoundFor("client", p[5]) /\ SoundFor("client", p[6])
  BY <1>1, <1>3, <1>4, OptionalStep
<1>8. SoundFor("client", p[7])
  BY <1>1, <1>3, <1>4, OptionalMarked
<1>9. \A i \in 1..7 : SoundFor("client", p[i])
  BY <1>5, <1>6, <1>7, <1>8
<1>10. Sound("client", p)
  BY <1>2, <1>9, Listed
<1>11. p[1].look /\ p[2].look /\ p[3].look /\ p[4].look
  BY <1>1 DEF Trial!If, Trial!Step
<1>12. p[5].look /\ p[6].look /\ p[7].look
  BY <1>1 DEF Trial!If, Trial!Marked, Trial!Step
<1>13. \A i \in 1..7 : p[i].look
  BY <1>11, <1>12
<1> QED
  BY <1>1, <1>2, <1>10, <1>13 DEF p, Trial!Step

LEMMA IntroIsSound ==
    /\ Sound("client", Trial!ClientIntro) /\ Len(Trial!ClientIntro) = 13
    /\ \A i \in 1..13 : ~Trial!ClientIntro[i].look =>
          i < 13 /\ Trial!ClientIntro[i + 1].act = "swipe"
                 /\ Trial!ClientIntro[i + 1].needs = Trial!Pages
<1> DEFINE p == Trial!ClientIntro
           back == Trial!Step("swipe", Trial!Intro, {"intro"})
<1>1. /\ p[1] = Trial!Marked(Trial!Step("start", {"intro"}, {"intro"}), "launch")
      /\ p[2] = Trial!Step("tap", {"dark"}, {"dark"})
      /\ p[3] = Trial!Marked(Trial!Step("tap", {"intro"}, {"intro"}), "theme_switch")
      /\ p[4] = Trial!Step("swipe", {"page2"}, {"page2"})
      /\ p[5] = Trial!Step("swipe", {"page3"}, {"page3"})
      /\ p[6] = Trial!Step("swipe", {"page4"}, {"page4"})
      /\ p[7] = Trial!Step("swipe", {"page5"}, {"page5"})
      /\ p[8] = Trial!Step("swipe", {"page6"}, {"page6"})
      /\ p[9] = Trial!Unseen(back) /\ p[10] = Trial!Unseen(back)
      /\ p[11] = Trial!Unseen(back) /\ p[12] = Trial!Unseen(back)
      /\ p[13] = Trial!Marked(back, "intro_return")
  BY DEF Trial!ClientIntro
<1>2. p = [i \in 1..13 |-> p[i]] /\ Len(p) = 13
  BY DEF Trial!ClientIntro
<1>3. /\ {"intro"} \in SUBSET Trial!Pages /\ {"dark"} \in SUBSET Trial!Pages
      /\ {"page2"} \in SUBSET Trial!Pages /\ {"page3"} \in SUBSET Trial!Pages
      /\ {"page4"} \in SUBSET Trial!Pages /\ {"page5"} \in SUBSET Trial!Pages
      /\ {"page6"} \in SUBSET Trial!Pages /\ Trial!Intro \in SUBSET Trial!Pages
      /\ "waiting" \notin Trial!Intro
  BY DEF Trial!Pages, Trial!Own, Trial!Intro
<1> HIDE DEF p
<1>4. SoundFor("client", p[1]) /\ SoundFor("client", p[3]) /\ SoundFor("client", p[13])
  BY <1>1, <1>3, PlainMarked
<1>5. SoundFor("client", p[2]) /\ SoundFor("client", p[4]) /\ SoundFor("client", p[5])
  BY <1>1, <1>3, PlainStep
<1>6. SoundFor("client", p[6]) /\ SoundFor("client", p[7]) /\ SoundFor("client", p[8])
  BY <1>1, <1>3, PlainStep
<1>7. SoundFor("client", Trial!Unseen(back))
  BY <1>3 DEF Trial!Unseen, Trial!Step, SoundFor
<1>8. \A i \in 1..13 : SoundFor("client", p[i])
  BY <1>1, <1>4, <1>5, <1>6, <1>7
<1>9. Sound("client", p)
  BY <1>2, <1>8, Listed
<1>10. \A i \in 1..8 : p[i].look
  BY <1>1 DEF Trial!Marked, Trial!Step
<1>11. p[13].look
  BY <1>1 DEF Trial!Marked, Trial!Step
<1>12. \A i \in 10..13 : p[i].act = "swipe" /\ p[i].needs = Trial!Pages
  BY <1>1 DEF Trial!Marked, Trial!Step, Trial!Unseen
<1>13. ASSUME NEW i \in 1..13, ~p[i].look PROVE i \in 9..12 /\ i + 1 \in 10..13
  BY <1>10, <1>11, <1>13
<1> QED
  BY <1>2, <1>9, <1>12, <1>13 DEF p

LEMMA LoginIsSound ==
    /\ Sound("client", Trial!ClientLogin) /\ Len(Trial!ClientLogin) = 2
    /\ \A i \in 1..2 : Trial!ClientLogin[i].look
<1> DEFINE p == Trial!ClientLogin
<1>1. PICK form : form = [Trial!ToPhone("phone") EXCEPT !.answers = @ \cup {"debugphone"}]
  OBVIOUS
<1>2. /\ p[1] = Trial!Marked(form, "login_screen")
      /\ p[2] = Trial!Marked(Trial!Step("start", {"intro"}, Trial!Own), "cold_restart")
  BY <1>1 DEF Trial!ClientLogin
<1>3. p = [i \in 1..2 |-> p[i]] /\ Len(p) = 2
  BY DEF Trial!ClientLogin
<1>4. {"intro"} \in SUBSET Trial!Pages
  BY DEF Trial!Pages, Trial!Own, Trial!Intro
<1> HIDE DEF p
<1>5. SoundFor("client", p[1])
  BY <1>1, <1>2, OverlaidStep
<1>6. SoundFor("client", p[2])
  BY <1>2, <1>4, PlainMarked
<1>7. \A i \in 1..2 : SoundFor("client", p[i])
  BY <1>5, <1>6
<1>8. Sound("client", p)
  BY <1>3, <1>7, Listed
<1>9. p[1].look /\ p[2].look
  BY <1>1, <1>2 DEF Trial!Marked, Trial!ToPhone, Trial!Step
<1> QED
  BY <1>3, <1>8, <1>9 DEF p

LEMMA CandidateIsSound ==
    /\ Sound("candidate", Trial!CandidateIntro) /\ Len(Trial!CandidateIntro) = 3
    /\ \A i \in 1..3 : Trial!CandidateIntro[i].look
    /\ Trial!CandidateIntro[1].act = "start" /\ Trial!CandidateIntro[1].needs = Trial!Pages
    /\ Sound("candidate", Trial!CandidatePhone) /\ Len(Trial!CandidatePhone) = 1
    /\ Trial!CandidatePhone[1].look
    /\ Sound("candidate", Trial!CandidateRestart) /\ Len(Trial!CandidateRestart) = 1
    /\ Trial!CandidateRestart[1].act = "start" /\ Trial!CandidateRestart[1].needs = Trial!Pages
    /\ Trial!CandidateRestart[1].look
<1> DEFINE p == Trial!CandidateIntro
           q == Trial!CandidatePhone
           r == Trial!CandidateRestart
<1>1. /\ p[1] = Trial!Marked(Trial!Step("start", {"intro"}, {"intro"}), "launch")
      /\ p[2] = Trial!Step("tap", {"dark"}, {"dark"})
      /\ p[3] = Trial!Marked(Trial!Step("tap", {"intro"}, {"intro"}), "light_dark_intro")
      /\ p = [i \in 1..3 |-> p[i]] /\ Len(p) = 3
  BY DEF Trial!CandidateIntro
<1>2. PICK form : form = [Trial!ToPhone("phone") EXCEPT !.answers = @ \cup {"debugphone"}]
  OBVIOUS
<1>3. q[1] = Trial!Marked(form, "phone_form") /\ q = [i \in 1..1 |-> q[i]] /\ Len(q) = 1
  BY <1>2 DEF Trial!CandidatePhone
<1>4. /\ r[1] = Trial!Marked(Trial!Step("start", {"intro"}, Trial!Own), "cold_restart")
      /\ r = [i \in 1..1 |-> r[i]] /\ Len(r) = 1
  BY DEF Trial!CandidateRestart
<1>5. {"intro"} \in SUBSET Trial!Pages /\ {"dark"} \in SUBSET Trial!Pages
  BY DEF Trial!Pages, Trial!Own, Trial!Intro
<1> HIDE DEF p, q, r
<1>6. SoundFor("candidate", p[1]) /\ SoundFor("candidate", p[3]) /\ SoundFor("candidate", r[1])
  BY <1>1, <1>4, <1>5, PlainMarked
<1>7. SoundFor("candidate", p[2])
  BY <1>1, <1>5, PlainStep
<1>8. SoundFor("candidate", q[1])
  BY <1>2, <1>3, OverlaidStep
<1>9. \A i \in 1..3 : SoundFor("candidate", p[i])
  BY <1>6, <1>7
<1>10. Sound("candidate", p)
  BY <1>1, <1>9, Listed
<1>11. \A i \in 1..1 : SoundFor("candidate", q[i]) /\ SoundFor("candidate", r[i])
  BY <1>6, <1>8
<1>12. Sound("candidate", q) /\ Sound("candidate", r)
  BY <1>3, <1>4, <1>11, Listed
<1>13. p[1].look /\ p[2].look /\ p[3].look /\ r[1].look
  BY <1>1, <1>4 DEF Trial!Marked, Trial!Step
<1>14. q[1].look
  BY <1>2, <1>3 DEF Trial!Marked, Trial!ToPhone, Trial!Step
<1>15. /\ p[1].act = "start" /\ p[1].needs = Trial!Pages
       /\ r[1].act = "start" /\ r[1].needs = Trial!Pages
  BY <1>1, <1>4 DEF Trial!Marked, Trial!Step
<1>16. \A i \in 1..3 : p[i].look
  BY <1>13
<1> QED
  BY <1>1, <1>3, <1>4, <1>10, <1>12, <1>13, <1>14, <1>15, <1>16 DEF p, q, r

LEMMA DialogIsSound ==
    /\ Sound("candidate", Trial!CandidateConnection) /\ Len(Trial!CandidateConnection) = 6
    /\ \A i \in 1..5 : Trial!CandidateConnection[i].look
<1> DEFINE p == Trial!CandidateConnection
           answers == {"ordinary", "ready", "tall"}
<1>1. /\ p[1] = Trial!Marked(Trial!Step("tap", answers, {"ordinary"}), "connection_dialog")
      /\ p[2] = Trial!Step("tap", {"phone"}, {"phone"})
      /\ p[3] = Trial!Marked(Trial!Step("tap", answers, {"ready"}), "arm64_tunnel_local_start")
      /\ p[4] = Trial!Step("tap", {"phone"}, {"phone"})
      /\ p[5] = Trial!Marked(Trial!Step("tap", answers, {"ordinary"}), "explicit_route_disable")
      /\ p[6] = Trial!Unseen(Trial!Step("tap", {"phone"}, {"phone"}))
  BY DEF Trial!CandidateConnection
<1>2. p = [i \in 1..6 |-> p[i]] /\ Len(p) = 6
  BY DEF Trial!CandidateConnection
<1>3. /\ answers \in SUBSET Trial!Pages /\ {"phone"} \in SUBSET Trial!Pages
      /\ "waiting" \notin answers
  BY DEF Trial!Pages, Trial!Own
<1> HIDE DEF p, answers
<1>4. SoundFor("candidate", p[1]) /\ SoundFor("candidate", p[3]) /\ SoundFor("candidate", p[5])
  BY <1>1, <1>3, PlainMarked
<1>5. SoundFor("candidate", p[2]) /\ SoundFor("candidate", p[4])
  BY <1>1, <1>3, PlainStep
<1>6. SoundFor("candidate", p[6])
  BY <1>1, <1>3 DEF Trial!Unseen, Trial!Step, SoundFor
<1>7. \A i \in 1..6 : SoundFor("candidate", p[i])
  BY <1>4, <1>5, <1>6
<1>8. Sound("candidate", p)
  BY <1>2, <1>7, Listed
<1>9. \A i \in 1..5 : p[i].look
  BY <1>1 DEF Trial!Marked, Trial!Step
<1> QED
  BY <1>2, <1>8, <1>9 DEF p

LEMMA SandboxProgram ==
    ASSUME script = "sandbox" PROVE ProgramIsSound
<1> DEFINE e == Trial!SandboxEntry
           f == Trial!SandboxNumber
           c == Trial!SandboxCode
           d == Trial!SandboxAccount
           p == Trial!Program
<1>1. p = ((e \o f) \o c) \o d
  BY DEF Trial!Program
<1>2. /\ Sound("sandbox", e) /\ Sound("sandbox", f) /\ Sound("sandbox", c) /\ Sound("sandbox", d)
      /\ Len(e) = 2 /\ Len(f) = 4
      /\ e[1].act = "start" /\ e[1].needs = Trial!Pages /\ e[2].act = "tap"
      /\ f[1].see = {"testphone"} /\ f[1].act = "tap"
  BY EntryIsSound, NumberIsSound, CodeIsSound, AccountIsSound
<1> HIDE DEF e, f, c, d, p
<1>3. /\ Sound("sandbox", e \o f) /\ Len(e \o f) = 6
      /\ (e \o f)[1] = e[1] /\ (e \o f)[2] = e[2] /\ (e \o f)[3] = f[1]
  <2>1. Sound("sandbox", e) /\ Sound("sandbox", f)
    BY <1>2
  <2>2. /\ Sound("sandbox", e \o f) /\ Len(e \o f) = Len(e) + Len(f)
        /\ \A i \in 1..Len(e) : (e \o f)[i] = e[i]
        /\ \A i \in 1..Len(f) : (e \o f)[Len(e) + i] = f[i]
    BY <2>1, Joined
  <2> QED
    BY <1>2, <2>2
<1>4. /\ Sound("sandbox", (e \o f) \o c) /\ Len((e \o f) \o c) \in Nat /\ Len((e \o f) \o c) >= 6
      /\ \A i \in 1..6 : ((e \o f) \o c)[i] = (e \o f)[i]
  <2>1. /\ Sound("sandbox", (e \o f) \o c) /\ Len((e \o f) \o c) = Len(e \o f) + Len(c) /\ Len(c) \in Nat
        /\ \A i \in 1..Len(e \o f) : ((e \o f) \o c)[i] = (e \o f)[i]
    BY <1>2, <1>3, Joined
  <2> QED
    BY <1>3, <2>1
<1>5. /\ Sound("sandbox", p) /\ 1 \in DOMAIN p /\ DOMAIN p \subseteq Nat \ {0}
      /\ p[1] = e[1] /\ p[2] = e[2] /\ p[3] = f[1]
  <2> DEFINE q == (e \o f) \o c
  <2>1. Sound("sandbox", q) /\ Len(q) \in Nat /\ Len(q) >= 6 /\ \A i \in 1..6 : q[i] = (e \o f)[i]
    BY <1>4
  <2>2. p = q \o d
    BY <1>1
  <2> HIDE DEF q
  <2>3. /\ Sound("sandbox", p) /\ DOMAIN p = 1..(Len(q) + Len(d)) /\ Len(d) \in Nat
        /\ \A i \in 1..Len(q) : p[i] = q[i]
    BY <1>2, <2>1, <2>2, Joined
  <2>4. Len(q) + Len(d) \in Nat /\ Len(q) + Len(d) >= 6
    BY <2>1, <2>3
  <2>5. 1 \in DOMAIN p /\ DOMAIN p \subseteq Nat \ {0}
    BY <2>3, <2>4
  <2>6. ASSUME NEW i \in 1..6 PROVE p[i] = (e \o f)[i]
    <3>1. i \in 1..Len(q)
      BY <2>1
    <3> QED
      BY <2>1, <2>3, <3>1
  <2> QED
    BY <1>3, <2>3, <2>5, <2>6
<1>6. \A i \in DOMAIN p : p[i].look
  BY <1>5 DEF Sound, SoundFor
<1>7. ASSUME NEW i \in DOMAIN p, p[i].act \in {"number", "digit"}
      PROVE  \E k \in 1..(i - 1) : p[k].see = {"testphone"}
  <2>1. i # 1 /\ i # 2 /\ i # 3
    BY <1>2, <1>5, <1>7
  <2>2. i \in Nat /\ 3 \in 1..(i - 1)
    BY <1>5, <2>1
  <2>3. p[3].see = {"testphone"}
    BY <1>2, <1>5
  <2> QED
    BY <2>2, <2>3
<1> QED
  BY <1>2, <1>5, <1>6, <1>7 DEF ProgramIsSound, p

(* A script other than the sandbox types nothing.                          *)
LEMMA NothingTyped ==
    ASSUME NEW name, name # "sandbox", NEW p, Sound(name, p), NEW i \in DOMAIN p
    PROVE  p[i].act \notin {"number", "digit"}
BY DEF Sound, SoundFor

LEMMA ClientProgram ==
    ASSUME script = "client" PROVE ProgramIsSound
<1> DEFINE a == Trial!ClientLauncher
           b == Trial!ClientIntro
           c == Trial!ClientLogin
           q == a \o b
           p == Trial!Program
<1>1. p = q \o c
  BY DEF Trial!Program
<1>2. /\ Sound("client", a) /\ Sound("client", b) /\ Sound("client", c)
      /\ Len(a) = 7 /\ Len(b) = 13 /\ Len(c) = 2
      /\ \A i \in 1..7 : a[i].look
      /\ a[1].act = "start" /\ a[1].needs = Trial!Pages
      /\ \A i \in 1..13 : ~b[i].look =>
            i < 13 /\ b[i + 1].act = "swipe" /\ b[i + 1].needs = Trial!Pages
      /\ \A i \in 1..2 : c[i].look
  BY LauncherIsSound, IntroIsSound, LoginIsSound
<1> HIDE DEF a, b, c
<1>3. /\ Sound("client", q) /\ Len(q) = 20
      /\ \A i \in 1..7 : q[i] = a[i]
      /\ \A i \in 1..13 : q[7 + i] = b[i]
  <2>1. Sound("client", a) /\ Sound("client", b)
    BY <1>2
  <2>2. Len(a) = 7 /\ Len(b) = 13
    BY <1>2
  <2>3. q = a \o b
    BY DEF q
  <2> HIDE DEF q
  <2>4. /\ Sound("client", a \o b) /\ Len(a \o b) = Len(a) + Len(b)
        /\ DOMAIN (a \o b) = 1..(Len(a) + Len(b))
        /\ \A i \in 1..Len(a) : (a \o b)[i] = a[i]
        /\ \A i \in 1..Len(b) : (a \o b)[Len(a) + i] = b[i]
    BY <2>1, Joined
  <2>5. /\ Sound("client", q) /\ Len(q) = 20 /\ DOMAIN q = 1..20
    BY <2>2, <2>3, <2>4
  <2>6. \A i \in 1..7 : q[i] = a[i]
    BY <2>2, <2>3, <2>4
  <2>7. \A i \in 1..13 : q[7 + i] = b[i]
    BY <2>2, <2>3, <2>4
  <2> QED
    BY <2>5, <2>6, <2>7
<1> HIDE DEF q, p
<1>4. /\ Sound("client", p) /\ DOMAIN p = 1..22
      /\ \A i \in 1..20 : p[i] = q[i]
      /\ \A i \in 1..2 : p[20 + i] = c[i]
  <2>1. Sound("client", q) /\ Sound("client", c)
    BY <1>2, <1>3
  <2>2. Len(q) = 20 /\ Len(c) = 2
    BY <1>2, <1>3
  <2>3. p = q \o c
    BY <1>1
  <2>4. /\ Sound("client", q \o c) /\ Len(q \o c) = Len(q) + Len(c)
        /\ DOMAIN (q \o c) = 1..(Len(q) + Len(c))
        /\ \A i \in 1..Len(q) : (q \o c)[i] = q[i]
        /\ \A i \in 1..Len(c) : (q \o c)[Len(q) + i] = c[i]
    BY <2>1, Joined
  <2>5. /\ Sound("client", p) /\ Len(p) = 22 /\ DOMAIN p = 1..22
    BY <2>2, <2>3, <2>4
  <2>6. \A i \in 1..20 : p[i] = q[i]
    BY <2>2, <2>3, <2>4
  <2>7. \A i \in 1..2 : p[20 + i] = c[i]
    BY <2>2, <2>3, <2>4
  <2> QED
    BY <2>5, <2>6, <2>7
<1>5. \A i \in 1..7 : p[i] = a[i]
  BY <1>3, <1>4
<1>6. \A i \in 1..13 : p[7 + i] = b[i]
  BY <1>3, <1>4
<1>7. ASSUME NEW i \in DOMAIN p, ~p[i].look
      PROVE  p[i + 1].act = "swipe" /\ p[i + 1].needs = Trial!Pages
  <2>1. i \notin 1..7
    BY <1>2, <1>5, <1>7
  <2>2. i \notin 21..22
    <3>1. i \in 21..22 => i - 20 \in 1..2 /\ p[20 + (i - 20)] = c[i - 20] /\ 20 + (i - 20) = i
      BY <1>4
    <3> QED
      BY <1>2, <1>7, <3>1
  <2>3. PICK k \in 1..13 : i = 7 + k
    <3>1. i \in 8..20
      BY <1>4, <2>1, <2>2
    <3>2. i - 7 \in 1..13 /\ i = 7 + (i - 7)
      BY <3>1
    <3> QED
      BY <3>2
  <2>4. p[i] = b[k] /\ k < 13 /\ b[k + 1].act = "swipe" /\ b[k + 1].needs = Trial!Pages
    BY <1>2, <1>6, <1>7, <2>3
  <2>5. k + 1 \in 1..13 /\ i + 1 = 7 + (k + 1)
    BY <2>3, <2>4
  <2>6. p[i + 1] = b[k + 1]
    BY <1>6, <2>5
  <2> QED
    BY <2>4, <2>6
<1>8. \A i \in DOMAIN p : p[i].act \notin {"number", "digit"}
  BY <1>4, NothingTyped
<1>9. 1 \in DOMAIN p /\ p[1].act = "start" /\ p[1].needs = Trial!Pages
  BY <1>2, <1>4, <1>5
<1> QED
  BY <1>4, <1>7, <1>8, <1>9 DEF ProgramIsSound, p

LEMMA CandidateProgram ==
    ASSUME script = "candidate" PROVE ProgramIsSound
<1> DEFINE a == Trial!CandidateIntro
           b == Trial!CandidatePhone
           c == Trial!CandidateConnection
           d == Trial!CandidateRestart
           q == a \o b
           r == q \o c
           p == Trial!Program
<1>1. p = r \o d
  BY DEF Trial!Program
<1>2. /\ Sound("candidate", a) /\ Sound("candidate", b) /\ Sound("candidate", c) /\ Sound("candidate", d)
      /\ Len(a) = 3 /\ Len(b) = 1 /\ Len(c) = 6 /\ Len(d) = 1
      /\ \A i \in 1..3 : a[i].look
      /\ a[1].act = "start" /\ a[1].needs = Trial!Pages
      /\ b[1].look /\ d[1].look
      /\ \A i \in 1..5 : c[i].look
      /\ d[1].act = "start" /\ d[1].needs = Trial!Pages
  BY CandidateIsSound, DialogIsSound
<1> HIDE DEF a, b, c, d
<1>3. /\ Sound("candidate", q) /\ Len(q) = 4
      /\ \A i \in 1..3 : q[i] = a[i]
      /\ q[4] = b[1]
  <2>1. Sound("candidate", a) /\ Sound("candidate", b)
    BY <1>2
  <2>2. Len(a) = 3 /\ Len(b) = 1
    BY <1>2
  <2>3. q = a \o b
    BY DEF q
  <2> HIDE DEF q
  <2>4. /\ Sound("candidate", a \o b) /\ Len(a \o b) = Len(a) + Len(b)
        /\ DOMAIN (a \o b) = 1..(Len(a) + Len(b))
        /\ \A i \in 1..Len(a) : (a \o b)[i] = a[i]
        /\ \A i \in 1..Len(b) : (a \o b)[Len(a) + i] = b[i]
    BY <2>1, Joined
  <2>5. /\ Sound("candidate", q) /\ Len(q) = 4 /\ DOMAIN q = 1..4
    BY <2>2, <2>3, <2>4
  <2>6. \A i \in 1..3 : q[i] = a[i]
    BY <2>2, <2>3, <2>4
  <2>7. \A i \in 1..1 : q[3 + i] = b[i]
    BY <2>2, <2>3, <2>4
  <2> QED
    BY <2>5, <2>6, <2>7
<1> HIDE DEF q
<1>4. /\ Sound("candidate", r) /\ Len(r) = 10
      /\ \A i \in 1..4 : r[i] = q[i]
      /\ \A i \in 1..6 : r[4 + i] = c[i]
  <2>1. Sound("candidate", q) /\ Sound("candidate", c)
    BY <1>2, <1>3
  <2>2. Len(q) = 4 /\ Len(c) = 6
    BY <1>2, <1>3
  <2>3. r = q \o c
    BY DEF r
  <2> HIDE DEF r
  <2>4. /\ Sound("candidate", q \o c) /\ Len(q \o c) = Len(q) + Len(c)
        /\ DOMAIN (q \o c) = 1..(Len(q) + Len(c))
        /\ \A i \in 1..Len(q) : (q \o c)[i] = q[i]
        /\ \A i \in 1..Len(c) : (q \o c)[Len(q) + i] = c[i]
    BY <2>1, Joined
  <2>5. /\ Sound("candidate", r) /\ Len(r) = 10 /\ DOMAIN r = 1..10
    BY <2>2, <2>3, <2>4
  <2>6. \A i \in 1..4 : r[i] = q[i]
    BY <2>2, <2>3, <2>4
  <2>7. \A i \in 1..6 : r[4 + i] = c[i]
    BY <2>2, <2>3, <2>4
  <2> QED
    BY <2>5, <2>6, <2>7
<1> HIDE DEF r, p
<1>5. /\ Sound("candidate", p) /\ DOMAIN p = 1..11
      /\ \A i \in 1..10 : p[i] = r[i]
      /\ p[11] = d[1]
  <2>1. Sound("candidate", r) /\ Sound("candidate", d)
    BY <1>2, <1>4
  <2>2. Len(r) = 10 /\ Len(d) = 1
    BY <1>2, <1>4
  <2>3. p = r \o d
    BY <1>1
  <2>4. /\ Sound("candidate", r \o d) /\ Len(r \o d) = Len(r) + Len(d)
        /\ DOMAIN (r \o d) = 1..(Len(r) + Len(d))
        /\ \A i \in 1..Len(r) : (r \o d)[i] = r[i]
        /\ \A i \in 1..Len(d) : (r \o d)[Len(r) + i] = d[i]
    BY <2>1, Joined
  <2>5. /\ Sound("candidate", p) /\ Len(p) = 11 /\ DOMAIN p = 1..11
    BY <2>2, <2>3, <2>4
  <2>6. \A i \in 1..10 : p[i] = r[i]
    BY <2>2, <2>3, <2>4
  <2>7. \A i \in 1..1 : p[10 + i] = d[i]
    BY <2>2, <2>3, <2>4
  <2> QED
    BY <2>5, <2>6, <2>7
<1>6. /\ \A i \in 1..3 : p[i] = a[i]
      /\ p[4] = b[1] /\ p[11] = d[1]
  BY <1>3, <1>4, <1>5
<1>7. p[5] = c[1] /\ p[6] = c[2] /\ p[7] = c[3] /\ p[8] = c[4] /\ p[9] = c[5]
  BY <1>4, <1>5
<1>8. \A i \in 1..11 : i # 10 => p[i].look
  BY <1>2, <1>6, <1>7
<1>9. p[11].act = "start" /\ p[11].needs = Trial!Pages
  BY <1>2, <1>6
<1>10. \A i \in DOMAIN p : p[i].act \notin {"number", "digit"}
  BY <1>5, NothingTyped
<1>11. 1 \in DOMAIN p /\ p[1].act = "start" /\ p[1].needs = Trial!Pages
  BY <1>2, <1>5, <1>6
<1>12. ASSUME NEW i \in DOMAIN p, ~p[i].look PROVE p[i + 1].act = "start" /\ p[i + 1].needs = Trial!Pages
  <2>1. i = 10
    BY <1>5, <1>8, <1>12
  <2> QED
    BY <1>9, <2>1
<1> QED
  BY <1>5, <1>10, <1>11, <1>12 DEF ProgramIsSound, p

LEMMA PageNames ==
    /\ "none" \notin Trial!Pages /\ "broken" \notin Trial!Pages
    /\ {"home", "other", "crash", "waiting", "code", "othercode", "limited", "callrationale", "permission"}
          \subseteq Trial!Pages
BY DEF Trial!Pages, Trial!Own, Trial!Intro

LEMMA ProgramFacts ==
    ASSUME TrialOK
    PROVE  /\ ProgramIsSound
           /\ DOMAIN Trial!Program = 1..Len(Trial!Program) /\ Len(Trial!Program) \in Nat
           /\ \A i \in DOMAIN Trial!Program : SoundFor(script, Trial!Program[i])
<1>1. ProgramIsSound
  BY SandboxProgram, ClientProgram, CandidateProgram DEF TrialOK
<1>2. PICK S : Trial!Program \in Seq(S) /\ \A s \in S : SoundFor(script, s)
  BY <1>1 DEF ProgramIsSound, Sound
<1> QED
  BY <1>1, <1>2

LEMMA SameProgram ==
    ASSUME UNCHANGED script
    PROVE  /\ Trial!Program' = Trial!Program /\ Trial!Marks' = Trial!Marks
           /\ \A i : Excused(i)' <=> Excused(i)
<1>1. Trial!Program' = Trial!Program
  BY DEF Trial!Program
<1> QED
  BY <1>1 DEF Trial!Marks, Excused

(* The marks of all the steps make up those of the script.                 *)
LEMMA MarksOfSteps ==
    ASSUME NEW i \in DOMAIN Trial!Program
    PROVE  Trial!Program[i].mark \subseteq Trial!Marks
BY DEF Trial!Marks

LEMMA TrialStarts ==
    ASSUME Trial!Init PROVE TrialInv
<1>1. TrialOK
  <2>1. script \in {"sandbox", "client", "candidate"}
    BY DEF Trial!Init
  <2>2. ProgramIsSound
    BY <2>1, SandboxProgram, ClientProgram, CandidateProgram
  <2>3. Len(Trial!Program) \in Nat
    BY <2>2 DEF ProgramIsSound, Sound
  <2>4. look \in [attempts : Nat, failures : Nat, file : Shown]
    BY DEF Trial!Init, Trial!NoLook, Shown
  <2>5. position = 1 /\ 1 \in 1..(Len(Trial!Program) + 1)
    BY <2>3 DEF Trial!Init
  <2>6. page = "home" /\ {page, seen} \subseteq Trial!Pages
    BY PageNames DEF Trial!Init
  <2>7. step = "prepare" /\ test = FALSE /\ raised = FALSE /\ cut = FALSE
    BY DEF Trial!Init
  <2> QED
    BY <2>1, <2>4, <2>5, <2>6, <2>7 DEF TrialOK, Before, Looking
<1>2. SightInv /\ TestInv
  BY <1>1 DEF SightInv, TestInv, Trial!Init, Trial!NoLook
<1>3. ResultInv /\ EndInv
  BY DEF ResultInv, EndInv, Trial!Init, Looking, After
<1> QED
  BY <1>1, <1>2, <1>3 DEF TrialInv, Trial!Init

LEMMA ActPreserves ==
    ASSUME TrialInv, Trial!Act PROVE TrialInv'
<1> DEFINE s == Trial!Program[position]
<1>1. /\ step = "act" /\ position \in DOMAIN Trial!Program
      /\ script' = script /\ input' = input /\ turn' = turn /\ look' = look /\ seen' = seen
      /\ process' = process
      /\ result' = result /\ verified' = verified /\ raised' = raised /\ cut' = cut
      /\ \/ s.look /\ step' = "dump" /\ position' = position
         \/ ~s.look /\ step' = "act" /\ position' = position + 1
  BY ProgramFacts DEF TrialInv, TrialOK, Trial!Act, Trial!This, Trial!machine, Trial!outcome
<1>2. /\ Trial!Program' = Trial!Program /\ Trial!Marks' = Trial!Marks
      /\ \A i : Excused(i)' <=> Excused(i)
  BY <1>1, SameProgram
<1>3. /\ SoundFor(script, s) /\ ProgramIsSound /\ DOMAIN Trial!Program = 1..Len(Trial!Program)
      /\ Len(Trial!Program) \in Nat /\ position \in Nat
  BY <1>1, ProgramFacts DEF TrialInv
<1>4. /\ page' \in s.answers \cup {page, "crash", "other"}
      /\ (test \/ page' = "testphone") => test'
      /\ test' \in BOOLEAN
      /\ test' => test \/ page' = "testphone"
  <2>1. CASE s.act = "none"
    <3>1. page' = page /\ test' = test
      BY <2>1 DEF Trial!Act, Trial!This, Trial!screenVars
    <3>2. test \in BOOLEAN /\ (page = "testphone" => test)
      BY DEF TrialInv, TrialOK, TestInv
    <3> HIDE DEF s
    <3> QED
      BY <3>1, <3>2
  <2>2. CASE s.act # "none"
    <3>1. /\ page' \in s.answers \cup {page, "crash", "other"}
          /\ test' = (test \/ page' = "testphone")
      BY <2>2 DEF Trial!Act, Trial!Answer, Trial!This
    <3> QED
      BY <3>1
  <2> QED
    BY <2>1, <2>2
<1>5. page # "waiting"
  BY <1>1 DEF TrialInv, SightInv
<1>6. page' = "waiting" => script = "sandbox"
  BY <1>3, <1>4, <1>5 DEF SoundFor
<1>7. page' \in Trial!Pages
  BY <1>3, <1>4, PageNames DEF TrialInv, TrialOK, SoundFor
<1>8. ~s.look => script # "sandbox" /\ s.mark = {} /\ s.see # {"testphone"}
  BY <1>3 DEF SoundFor
<1>9. TrialOK'
  BY <1>1, <1>2, <1>3, <1>4, <1>7 DEF TrialInv, TrialOK, Looking, Before
<1>10. SightInv'
  BY <1>1, <1>2, <1>3, <1>6, <1>8 DEF TrialInv, SightInv
<1>11. TestInv'
  <2>1. "testphone" \in {page', seen', look'.file} => test'
    BY <1>1, <1>4 DEF TrialInv, TestInv
  <2>2. \A i \in 1..(position' - 1) : Trial!Program[i].see = {"testphone"} => test'
    BY <1>1, <1>3, <1>4, <1>8 DEF TrialInv, TestInv
  <2> QED
    BY <1>2, <2>1, <2>2 DEF TestInv
<1>12. ResultInv' /\ EndInv'
  <2>1. \A i \in 1..(position' - 1) : Trial!Program[i].mark \subseteq result \/ Excused(i)
    BY <1>1, <1>3, <1>8 DEF TrialInv, ResultInv
  <2> QED
    BY <1>1, <1>2, <2>1 DEF TrialInv, ResultInv, EndInv, Looking, After
<1>13. harm' = {}
  <2>1. CASE s.act = "none"
    BY <2>1 DEF TrialInv, Trial!Act, Trial!This, Trial!screenVars
  <2>2. CASE s.act # "none"
    <3>1. harm' = harm \cup Trial!Stray(Trial!Aimed \/ s.act = "swipe")
                  \cup (IF s.act \in {"number", "digit"} /\ ~test
                        THEN {"a number for the production servers"} ELSE {})
      BY <2>2 DEF Trial!Act, Trial!Answer, Trial!This
    <3>2. s.act \in {"number", "digit"} => test
      BY <1>1, <1>3 DEF TrialInv, TestInv, ProgramIsSound
    <3>3. s.act = "start" \/ s.act = "swipe" \/ page = seen
      <4>1. CASE position = 1
        BY <1>3, <4>1 DEF ProgramIsSound
      <4>2. CASE position # 1 /\ ~Trial!Program[position - 1].look
        <5>1. position - 1 \in DOMAIN Trial!Program /\ (position - 1) + 1 = position
          BY <1>1, <1>3, <4>2
        <5> QED
          BY <1>1, <1>3, <4>2, <5>1 DEF ProgramIsSound
      <4> QED
        BY <1>1, <4>1, <4>2 DEF TrialInv, SightInv
    <3>4. Trial!Aimed \/ s.act = "swipe"
      BY <3>3 DEF Trial!Aimed, Trial!This
    <3> QED
      BY <3>1, <3>2, <3>4 DEF TrialInv, Trial!Stray
  <2> QED
    BY <2>1, <2>2
<1> QED
  BY <1>9, <1>10, <1>11, <1>12, <1>13 DEF TrialInv

(* Steps that leave the device and the looks alone.                        *)
LEMMA DeviceUntouched ==
    ASSUME TrialInv, UNCHANGED <<script, position, page, seen, test>>,
           raised' \in BOOLEAN, cut' \in BOOLEAN,
           look' = look \/ look' = Trial!NoLook,
           \/ step' = step /\ look' = look
           \/ step' \in After
           \/ step \in Before /\ step' \in Before
    PROVE  TrialOK' /\ SightInv' /\ TestInv'
<1>1. /\ Trial!Program' = Trial!Program /\ look'.file \in {look.file, "none"}
      /\ look' \in [attempts : Nat, failures : Nat, file : Shown]
  BY SameProgram DEF Trial!NoLook, TrialInv, TrialOK, Shown
<1>2. TrialOK'
  BY <1>1 DEF TrialInv, TrialOK, Before, Looking, After, Shown
<1>3. SightInv'
  BY <1>1 DEF TrialInv, SightInv, TrialOK, Before, After
<1>4. TestInv'
  BY <1>1 DEF TrialInv, TestInv
<1> QED
  BY <1>2, <1>3, <1>4

LEMMA RaisePreserves ==
    ASSUME TrialInv, Trial!Raise, step \in Trial!Trying PROVE TrialInv'
<1>1. /\ UNCHANGED <<script, position, page, seen, test>> /\ look' = Trial!NoLook
      /\ step' = "report" /\ raised' = TRUE /\ cut' = cut /\ harm' = harm /\ input' = input
  BY DEF Trial!Raise, Trial!machine, Trial!screenVars
<1>2. TrialOK' /\ SightInv' /\ TestInv'
  BY <1>1, DeviceUntouched DEF TrialInv, TrialOK, After
<1>3. ResultInv' /\ EndInv'
  BY <1>1 DEF TrialInv, ResultInv, EndInv, Looking, After, Trial!Trying
<1> QED
  BY <1>1, <1>2, <1>3 DEF TrialInv

LEMMA BeginningPreserves ==
    ASSUME TrialInv, Trial!RefuseInput \/ Trial!StartEmulator \/ Trial!Booted PROVE TrialInv'
<1>1. /\ UNCHANGED <<script, input, position, page, seen, test>> /\ look' = look
      /\ cut' = cut /\ harm' = harm
      /\ \/ step = "prepare" /\ step' = "over" /\ raised' = TRUE /\ process' = process
         \/ step = "prepare" /\ step' = "boot" /\ raised' = raised /\ input = "reviewed"
         \/ step = "boot" /\ step' = "install" /\ raised' = raised
  BY DEF Trial!RefuseInput, Trial!StartEmulator, Trial!Booted, Trial!machine, Trial!screenVars,
         Trial!outcome
<1>2. TrialOK' /\ SightInv' /\ TestInv'
  BY <1>1, DeviceUntouched DEF TrialInv, TrialOK, Before, After
<1>3. ResultInv'
  BY <1>1 DEF ResultInv, Looking, After
<1>4. EndInv'
  BY <1>1 DEF TrialInv, EndInv
<1> QED
  BY <1>1, <1>2, <1>3, <1>4 DEF TrialInv

LEMMA InstallPreserves ==
    ASSUME TrialInv, Trial!Install PROVE TrialInv'
<1>1. /\ UNCHANGED <<script, input, position, page, seen, test, look, raised, cut, harm>>
      /\ step = "install" /\ step' = "act" /\ result' = {"install"}
  BY DEF Trial!Install, Trial!machine, Trial!screenVars
<1>2. /\ Trial!Program' = Trial!Program /\ Trial!Marks' = Trial!Marks
      /\ position = 1 /\ page = "home"
  BY <1>1, SameProgram DEF TrialInv, TrialOK, Before
<1>3. TrialOK'
  BY <1>1, <1>2 DEF TrialInv, TrialOK, Before, Looking, Shown
<1>4. SightInv' /\ TestInv'
  BY <1>1, <1>2 DEF TrialInv, SightInv, TestInv
<1>5. ResultInv'
  <2>1. "install" \in Trial!Marks
    BY DEF Trial!Marks
  <2> QED
    BY <1>1, <1>2, <2>1 DEF ResultInv, Looking, After
<1>6. EndInv'
  BY <1>1 DEF TrialInv, EndInv
<1> QED
  BY <1>1, <1>3, <1>4, <1>5, <1>6 DEF TrialInv

(* A step that is left out is none of those that see the form of the test  *)
(* servers, and it has no mark but the one that is excused.                *)
LEMMA LeaveOutPreserves ==
    ASSUME TrialInv, Trial!LeaveOut PROVE TrialInv'
<1> DEFINE s == Trial!Program[position]
<1>1. /\ step = "act" /\ step' = "act" /\ position \in DOMAIN Trial!Program
      /\ position' = position + 1 /\ seen \notin s.needs
      /\ UNCHANGED <<script, input, look, seen, page, test, crashed, harm, process, result,
                     verified, raised, cut>>
  BY ProgramFacts DEF TrialInv, TrialOK, Trial!LeaveOut, Trial!This, Trial!machine,
                      Trial!screenVars, Trial!outcome
<1>2. /\ Trial!Program' = Trial!Program /\ Trial!Marks' = Trial!Marks
      /\ \A i : Excused(i)' <=> Excused(i)
  BY <1>1, SameProgram
<1>3. /\ SoundFor(script, s) /\ ProgramIsSound /\ DOMAIN Trial!Program = 1..Len(Trial!Program)
      /\ Len(Trial!Program) \in Nat /\ position \in Nat /\ seen \in Trial!Pages
  BY <1>1, ProgramFacts DEF TrialInv, TrialOK
<1>4. s.needs # Trial!Pages
  BY <1>1, <1>3
<1>5. /\ s.look /\ s.see # {"testphone"}
      /\ s.mark = {} \/ (script = "client" /\ s.mark = {"launcher_entry"})
  BY <1>3, <1>4 DEF SoundFor
<1>6. TrialOK'
  BY <1>1, <1>2, <1>3 DEF TrialInv, TrialOK, Before, Looking, Shown
<1>7. page = seen
  <2>1. position # 1
    BY <1>3, <1>4 DEF ProgramIsSound
  <2>2. position - 1 \in DOMAIN Trial!Program /\ (position - 1) + 1 = position
    BY <1>1, <1>3, <2>1
  <2>3. Trial!Program[position - 1].look
    BY <1>1, <1>3, <1>4, <2>2 DEF ProgramIsSound
  <2> QED
    BY <1>1, <2>1, <2>3 DEF TrialInv, SightInv
<1>8. SightInv'
  BY <1>1, <1>2, <1>7 DEF TrialInv, SightInv
<1>9. TestInv'
  <2>1. \A i \in 1..(position' - 1) : Trial!Program[i].see = {"testphone"} => test
    BY <1>1, <1>3, <1>5 DEF TrialInv, TestInv
  <2> QED
    BY <1>1, <1>2, <2>1 DEF TrialInv, TestInv
<1>10. ResultInv'
  <2>1. \A i \in 1..(position' - 1) : Trial!Program[i].mark \subseteq result \/ Excused(i)
    BY <1>1, <1>3, <1>5 DEF TrialInv, ResultInv, Excused
  <2> QED
    BY <1>1, <1>2, <2>1 DEF TrialInv, ResultInv, Looking, After
<1>11. EndInv'
  BY <1>1 DEF TrialInv, EndInv
<1> QED
  BY <1>1, <1>6, <1>8, <1>9, <1>10, <1>11 DEF TrialInv

(* The page that waits for a server moves on; nobody has acted upon it.    *)
LEMMA ArrivesPreserves ==
    ASSUME TrialInv, Trial!Arrives PROVE TrialInv'
<1>1. /\ page = "waiting" /\ page' \in {"code", "othercode", "limited", "callrationale", "permission"}
      /\ UNCHANGED <<script, input, step, position, look, seen, test, harm, process, result,
                     verified, raised, cut>>
  BY DEF Trial!Arrives, Trial!machine, Trial!outcome
<1>2. /\ Trial!Program' = Trial!Program /\ Trial!Marks' = Trial!Marks
      /\ \A i : Excused(i)' <=> Excused(i)
  BY <1>1, SameProgram
<1>3. page' \in Trial!Pages /\ page' # "waiting" /\ page' # "testphone"
  BY <1>1, PageNames
<1>4. step # "act" /\ step \notin Before
  BY <1>1 DEF TrialInv, SightInv, TrialOK
<1>5. TrialOK'
  BY <1>1, <1>2, <1>3, <1>4 DEF TrialInv, TrialOK, Shown
<1>6. SightInv'
  BY <1>1, <1>2, <1>3, <1>4 DEF TrialInv, SightInv
<1>7. TestInv'
  BY <1>1, <1>2, <1>3 DEF TrialInv, TestInv
<1>8. ResultInv' /\ EndInv'
  BY <1>1, <1>2 DEF TrialInv, ResultInv, EndInv
<1> QED
  BY <1>1, <1>5, <1>6, <1>7, <1>8 DEF TrialInv

(* What a step within a look leaves as it is.                              *)
LookingOn ==
    /\ step \in Looking /\ step' \in Looking
    /\ UNCHANGED <<script, input, position, page, test, harm, process, result, verified,
                   raised, cut>>

LEMMA LookingPreserves ==
    ASSUME TrialInv, LookingOn, seen' \in Trial!Pages,
           look' \in [attempts : Nat, failures : Nat, file : Shown],
           "waiting" \in {seen', look'.file} => "waiting" \in {page, seen, look.file},
           "testphone" \in {seen', look'.file} => "testphone" \in {page, seen, look.file},
           step' = "read" => look'.file \in {page, "none", "broken"},
           step' \in {"shot", "judge"} => seen' \in {page, "waiting"}
    PROVE  TrialInv'
<1>1. /\ Trial!Program' = Trial!Program /\ Trial!Marks' = Trial!Marks
      /\ \A i : Excused(i)' <=> Excused(i)
  BY SameProgram DEF LookingOn
<1>2. TrialOK'
  BY <1>1 DEF LookingOn, TrialInv, TrialOK, Looking, Before, Shown
<1>3. SightInv'
  BY <1>1 DEF LookingOn, TrialInv, SightInv, Looking
<1>4. TestInv'
  BY <1>1 DEF LookingOn, TrialInv, TestInv
<1>5. ResultInv' /\ EndInv'
  BY <1>1 DEF LookingOn, TrialInv, ResultInv, EndInv, Looking, After
<1> QED
  BY <1>2, <1>3, <1>4, <1>5 DEF LookingOn, TrialInv

LEMMA AgainPreserves ==
    ASSUME TrialInv, Trial!NotIdle \/ Trial!LookFails \/ Trial!CandidateRepeats PROVE TrialInv'
<1>1. PICK failures \in Nat : step \in {"dump", "read"} /\ Trial!LookAgain(failures)
  <2>1. look.failures \in Nat /\ look.failures + 1 \in Nat
    BY DEF TrialInv, TrialOK
  <2> QED
    BY <2>1 DEF Trial!NotIdle, Trial!LookFails, Trial!CandidateRepeats
<1>2. LookingOn /\ seen' = seen /\ step' = "dump"
  BY <1>1 DEF LookingOn, Looking, Trial!LookAgain, Trial!machine, Trial!screenVars, Trial!outcome
<1>3. look' = [look EXCEPT !.attempts = @ + 1, !.failures = failures, !.file = "none"]
  BY <1>1 DEF Trial!LookAgain
<1>4. look' \in [attempts : Nat, failures : Nat, file : Shown] /\ look'.file = "none"
  <2>1. PICK n \in Nat : n = look.attempts + 1
    BY DEF TrialInv, TrialOK
  <2>2. look' = [look EXCEPT !.attempts = n, !.failures = failures, !.file = "none"]
    BY <1>3, <2>1
  <2> QED
    BY <2>2 DEF TrialInv, TrialOK, Shown
<1> QED
  BY <1>2, <1>4, LookingPreserves DEF TrialInv, TrialOK

LEMMA DumpPreserves ==
    ASSUME TrialInv, Trial!Dump PROVE TrialInv'
<1>1. PICK file \in {page, "none", "broken"} : look' = [look EXCEPT !.file = file]
  BY DEF Trial!Dump
<1>2. LookingOn /\ seen' = seen /\ step' = "read"
  BY DEF Trial!Dump, LookingOn, Looking, Trial!machine, Trial!screenVars, Trial!outcome
<1>3. look' \in [attempts : Nat, failures : Nat, file : Shown] /\ look'.file = file
  BY <1>1 DEF TrialInv, TrialOK, Shown
<1> QED
  BY <1>2, <1>3, LookingPreserves DEF TrialInv, TrialOK

LEMMA ObservePreserves ==
    ASSUME TrialInv, Trial!Observe PROVE TrialInv'
<1>1. LookingOn /\ step = "read" /\ step' = "shot" /\ look' = look /\ seen' = look.file
  BY DEF Trial!Observe, LookingOn, Looking, Trial!machine, Trial!screenVars, Trial!outcome
<1>2. look.file \in Trial!Pages /\ seen' \in {page, "waiting"}
  BY <1>1, PageNames DEF Trial!Observe, TrialInv, SightInv
<1> QED
  BY <1>1, <1>2, LookingPreserves DEF TrialInv, TrialOK

LEMMA JudgingPreserves ==
    ASSUME TrialInv, Trial!Screenshot \/ Trial!WaitForServer PROVE TrialInv'
<1>1. /\ LookingOn /\ seen' = seen
      /\ step \in {"shot", "judge"} /\ step' \in {"judge", "dump"}
      /\ look' = look \/ look' = Trial!NoLook
  BY DEF Trial!Screenshot, Trial!WaitForServer, LookingOn, Looking, Trial!machine,
         Trial!screenVars, Trial!outcome
<1>2. look' \in [attempts : Nat, failures : Nat, file : Shown] /\ look'.file \in {look.file, "none"}
  BY <1>1 DEF TrialInv, TrialOK, Trial!NoLook, Shown
<1> QED
  BY <1>1, <1>2, LookingPreserves DEF TrialInv, TrialOK, SightInv

(* A mark is set for what the device shows: what was seen is not a page    *)
(* that could have moved on.                                               *)
LEMMA PassPreserves ==
    ASSUME TrialInv, Trial!Pass PROVE TrialInv'
<1> DEFINE s == Trial!Program[position]
<1>1. /\ step = "judge" /\ step' = "act" /\ position' = position + 1
      /\ seen \in s.see \cup s.late /\ result' = result \cup s.mark
      /\ UNCHANGED <<script, input, look, seen, page, test, process, verified, raised, cut>>
  BY DEF Trial!Pass, Trial!Passes, Trial!This, Trial!machine
<1>2. /\ Trial!Program' = Trial!Program /\ Trial!Marks' = Trial!Marks
      /\ \A i : Excused(i)' <=> Excused(i)
  BY <1>1, SameProgram
<1>3. /\ position \in DOMAIN Trial!Program /\ DOMAIN Trial!Program = 1..Len(Trial!Program)
      /\ Len(Trial!Program) \in Nat /\ SoundFor(script, s)
  BY <1>1, ProgramFacts DEF TrialInv, TrialOK, Looking
<1>4. page = seen /\ page # "waiting"
  BY <1>1, <1>3 DEF TrialInv, SightInv, SoundFor
<1>5. TrialOK'
  BY <1>1, <1>2, <1>3 DEF TrialInv, TrialOK, Before, Looking, Shown
<1>6. SightInv'
  BY <1>1, <1>2, <1>4 DEF TrialInv, SightInv
<1>7. TestInv'
  <2>1. s.see = {"testphone"} => test
    BY <1>1, <1>3 DEF TrialInv, TestInv, SoundFor
  <2>2. \A i \in 1..(position' - 1) : Trial!Program[i].see = {"testphone"} => test
    BY <1>1, <1>3, <2>1 DEF TrialInv, TestInv
  <2> QED
    BY <1>1, <1>2, <2>2 DEF TrialInv, TestInv
<1>8. ResultInv'
  <2>1. \A i \in 1..(position' - 1) : Trial!Program[i].mark \subseteq result' \/ Excused(i)
    BY <1>1, <1>3 DEF TrialInv, ResultInv, Looking
  <2>2. "install" \in result' /\ result' \subseteq Trial!Marks
    BY <1>1, <1>3, MarksOfSteps DEF TrialInv, ResultInv, Looking
  <2> QED
    BY <1>1, <1>2, <2>1, <2>2 DEF ResultInv, Looking, After
<1>9. EndInv'
  BY <1>1 DEF TrialInv, EndInv
<1>10. harm' = {}
  BY <1>1, <1>4 DEF TrialInv, Trial!Pass, Trial!This
<1> QED
  BY <1>5, <1>6, <1>7, <1>8, <1>9, <1>10 DEF TrialInv

(* An overlay is put away where it was seen.                               *)
LEMMA DismissPreserves ==
    ASSUME TrialInv, Trial!Dismiss PROVE TrialInv'
<1> DEFINE s == Trial!Program[position]
<1>1. /\ step = "judge" /\ step' = "dump" /\ seen \in s.meet
      /\ page' \in IF page = seen THEN s.answers \cup {page, "crash", "other"} ELSE {"other"}
      /\ harm' = harm \cup Trial!Stray(page = seen)
      /\ UNCHANGED <<script, input, position, look, seen, test, process, result, verified,
                     raised, cut>>
  BY DEF Trial!Dismiss, Trial!Overlaid, Trial!This, Trial!machine, Trial!outcome
<1>2. /\ Trial!Program' = Trial!Program /\ Trial!Marks' = Trial!Marks
      /\ \A i : Excused(i)' <=> Excused(i)
  BY <1>1, SameProgram
<1>3. /\ position \in DOMAIN Trial!Program /\ SoundFor(script, s)
  BY <1>1, ProgramFacts DEF TrialInv, TrialOK, Looking
<1>4. page = seen /\ seen # "waiting"
  BY <1>1, <1>3 DEF TrialInv, SightInv, SoundFor
<1>5. page' \in s.answers \cup {page, "crash", "other"}
  BY <1>1, <1>4
<1>6. page' \in Trial!Pages
  BY <1>3, <1>5, PageNames DEF TrialInv, TrialOK, SoundFor
<1>7. page' = "waiting" => script = "sandbox"
  BY <1>3, <1>4, <1>5 DEF SoundFor
<1>8. page' = "testphone" => test
  <2>1. "testphone" \notin s.answers
    BY <1>1, <1>3 DEF SoundFor
  <2> QED
    BY <1>5, <2>1 DEF TrialInv, TestInv
<1>9. TrialOK'
  BY <1>1, <1>2, <1>6 DEF TrialInv, TrialOK, Before, Looking, Shown
<1>10. SightInv'
  BY <1>1, <1>2, <1>7 DEF TrialInv, SightInv
<1>11. TestInv'
  BY <1>1, <1>2, <1>8 DEF TrialInv, TestInv
<1>12. ResultInv' /\ EndInv'
  BY <1>1, <1>2 DEF TrialInv, ResultInv, EndInv, Looking, After
<1>13. harm' = {}
  BY <1>1, <1>4 DEF TrialInv, Trial!Stray
<1> QED
  BY <1>9, <1>10, <1>11, <1>12, <1>13 DEF TrialInv

(* Behind the last step every mark is set, or the script refuses.          *)
LEMMA AcceptPreserves ==
    ASSUME TrialInv, Trial!Accept PROVE TrialInv'
<1>1. step = "act" /\ position > Len(Trial!Program)
  BY DEF Trial!Accept
<1>2. CASE Trial!Raise
  BY <1>1, <1>2, RaisePreserves DEF Trial!Trying
<1>3. CASE ~Trial!LauncherRefused /\ step' = "report" /\ UNCHANGED Trial!machine
           /\ UNCHANGED <<position, turn, look, seen, process>> /\ UNCHANGED Trial!screenVars
           /\ UNCHANGED Trial!outcome
  <2>1. UNCHANGED <<script, input, position, look, seen, page, test, harm, process, result,
                    verified, raised, cut>>
    BY <1>3 DEF Trial!machine, Trial!screenVars, Trial!outcome
  <2>2. Trial!Marks' = Trial!Marks
    BY <2>1, SameProgram
  <2>3. TrialOK' /\ SightInv' /\ TestInv'
    BY <1>1, <1>3, <2>1, DeviceUntouched DEF TrialInv, TrialOK, After
  <2>4. /\ "install" \in result /\ result \subseteq Trial!Marks
        /\ \A i \in 1..(position - 1) : Trial!Program[i].mark \subseteq result \/ Excused(i)
    BY <1>1 DEF TrialInv, ResultInv
  <2>5. ASSUME NEW i \in DOMAIN Trial!Program PROVE Trial!Program[i].mark \subseteq result
    <3>1. i \in 1..(position - 1)
      BY <1>1, ProgramFacts DEF TrialInv, TrialOK
    <3>2. Excused(i) => Trial!Program[i].mark \subseteq result
      BY <1>3 DEF Excused, Trial!LauncherRefused
    <3> QED
      BY <2>4, <3>1, <3>2
  <2>6. result = Trial!Marks
    BY <2>4, <2>5 DEF Trial!Marks
  <2>7. ResultInv' /\ EndInv'
    BY <1>1, <1>3, <2>1, <2>2, <2>6 DEF TrialInv, ResultInv, EndInv, Looking, After
  <2> QED
    BY <2>1, <2>3, <2>7 DEF TrialInv
<1> QED
  BY <1>2, <1>3 DEF Trial!Accept

(* The finally: the result is copied, and the emulator is gone when the    *)
(* script is over, unless it was cut short.                                *)
LEMMA FinallyPreserves ==
    ASSUME TrialInv, Trial!Report \/ Trial!Diagnose \/ Trial!Stop \/ Trial!Kill PROVE TrialInv'
<1>1. /\ UNCHANGED <<script, input, position, look, seen, page, test, harm, result, cut>>
      /\ raised' = raised \/ raised' = TRUE
      /\ step \in After \ {"over"} /\ step' \in After \ {"report"}
      /\ verified' = result \/ (step # "report" /\ verified' = verified)
      /\ step' = "over" => process' = "ended" \/ (raised' /\ process' = "killed")
  BY DEF Trial!Report, Trial!Diagnose, Trial!Stop, Trial!Kill, After, Trial!machine,
         Trial!screenVars, Trial!outcome
<1>2. Trial!Marks' = Trial!Marks
  BY <1>1, SameProgram
<1>3. raised' \in BOOLEAN /\ (~raised' => ~raised)
  <2>1. raised \in BOOLEAN
    BY DEF TrialInv, TrialOK
  <2>2. CASE raised' = raised
    BY <2>1, <2>2
  <2>3. CASE raised' = TRUE
    BY <2>3
  <2> QED
    BY <1>1, <2>2, <2>3
<1>4. TrialOK' /\ SightInv' /\ TestInv'
  BY <1>1, <1>3, DeviceUntouched DEF TrialInv, TrialOK, After
<1>5. ResultInv'
  BY <1>1, <1>2, <1>3 DEF TrialInv, ResultInv, Looking, After
<1>6. EndInv'
  BY <1>1 DEF TrialInv, EndInv, After
<1> QED
  BY <1>1, <1>4, <1>5, <1>6 DEF TrialInv

LEMMA EndingPreserves ==
    ASSUME TrialInv, Trial!EmulatorEnds \/ Trial!CutShort PROVE TrialInv'
<1>1. /\ UNCHANGED <<script, input, position, look, seen, page, test, harm, result, verified>>
      /\ \/ /\ step' = step /\ raised' = raised /\ cut' = cut
            /\ process \in {"starting", "ready", "killed"} /\ process' = "ended"
         \/ /\ step \in Trial!Trying \cup Trial!Finally
            /\ step' = "over" /\ raised' = TRUE /\ cut' = TRUE
  BY DEF Trial!EmulatorEnds, Trial!CutShort, Trial!machine, Trial!screenVars, Trial!outcome
<1>2. /\ Trial!Program' = Trial!Program /\ Trial!Marks' = Trial!Marks
      /\ \A i : Excused(i)' <=> Excused(i)
  BY <1>1, SameProgram
<1>3. TrialOK' /\ SightInv' /\ TestInv'
  BY <1>1, DeviceUntouched DEF TrialInv, TrialOK, After
<1>4. ResultInv'
  BY <1>1, <1>2 DEF TrialInv, ResultInv, Looking, After
<1>5. EndInv'
  BY <1>1 DEF TrialInv, EndInv, Trial!Trying, Trial!Finally
<1> QED
  BY <1>1, <1>3, <1>4, <1>5 DEF TrialInv

LEMMA TrialNextPreserves ==
    ASSUME TrialInv, [Trial!Next]_(Trial!vars) PROVE TrialInv'
<1>1. CASE \/ Trial!RefuseInput \/ Trial!StartEmulator \/ Trial!Booted \/ Trial!Install
           \/ Trial!Act \/ Trial!LeaveOut \/ Trial!Arrives
  BY <1>1, BeginningPreserves, InstallPreserves, ActPreserves, LeaveOutPreserves, ArrivesPreserves
<1>2. CASE \/ Trial!NotIdle \/ Trial!Dump \/ Trial!LookFails \/ Trial!CandidateRepeats
           \/ Trial!Observe \/ Trial!Screenshot \/ Trial!WaitForServer
  BY <1>2, AgainPreserves, DumpPreserves, ObservePreserves, JudgingPreserves
<1>3. CASE Trial!NothingFresh \/ Trial!Mismatch \/ Trial!CommandFails
  BY <1>3, RaisePreserves DEF Trial!NothingFresh, Trial!Mismatch, Trial!CommandFails, Trial!Trying
<1>4. CASE Trial!Pass \/ Trial!Dismiss \/ Trial!Accept
  BY <1>4, PassPreserves, DismissPreserves, AcceptPreserves
<1>5. CASE \/ Trial!Report \/ Trial!Diagnose \/ Trial!Stop \/ Trial!Kill
           \/ Trial!EmulatorEnds \/ Trial!CutShort
  BY <1>5, FinallyPreserves, EndingPreserves
<1>6. CASE UNCHANGED Trial!vars
  <2>1. UNCHANGED <<script, input, step, position, look, seen, page, test, harm, process, result,
                    verified, raised, cut>>
    BY <1>6 DEF Trial!vars, Trial!machine, Trial!screenVars, Trial!outcome
  <2>2. /\ Trial!Program' = Trial!Program /\ Trial!Marks' = Trial!Marks
        /\ \A i : Excused(i)' <=> Excused(i)
    BY <2>1, SameProgram
  <2>3. TrialOK' /\ SightInv' /\ TestInv'
    BY <2>1, DeviceUntouched DEF TrialInv, TrialOK
  <2>4. ResultInv' /\ EndInv'
    BY <2>1, <2>2 DEF TrialInv, ResultInv, EndInv
  <2> QED
    BY <2>1, <2>3, <2>4 DEF TrialInv
<1> QED
  BY <1>1, <1>2, <1>3, <1>4, <1>5, <1>6 DEF Trial!Next

(* A run that explores the jobs and the trials is a run of the trials.     *)
LEMMA ReleaseRunsTrials == ReleaseSpec => Trial!Spec
<1>1. ReleaseInit => Trial!Init
  BY DEF ReleaseInit
<1>2. [ReleaseNext]_<<vars, trialVars, part>> => [Trial!Next]_(Trial!vars)
  BY DEF ReleaseNext, trialVars, Trial!vars, Trial!machine, Trial!screenVars, Trial!outcome
<1> QED
  BY <1>1, <1>2, PTL DEF ReleaseSpec, Trial!Spec

(* However often dumps fail or lie and whatever the device does: no script *)
(* acts on what it did not observe, types a number for the production      *)
(* servers, or reports what the device did not show; success means every   *)
(* mark on the reviewed APK, and a finished script leaves no emulator.     *)
THEOREM TrialAlwaysHonest == ReleaseSpec => []TrialHonest
<1>1. Trial!Init => TrialInv
  BY TrialStarts
<1>2. TrialInv /\ [Trial!Next]_(Trial!vars) => TrialInv'
  BY TrialNextPreserves
<1>3. TrialInv => TrialHonest
  BY DEF TrialInv, ResultInv, EndInv, After, TrialHonest, Trial!TrialHonest
<1> QED
  BY <1>1, <1>2, <1>3, ReleaseRunsTrials, PTL DEF Trial!Spec
=============================================================================
