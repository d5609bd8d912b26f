-------------------------------- MODULE Editor --------------------------------
(***************************************************************************)
(* plugins/vscode/src/extension.ts and sidebar.ts: the bugs an editor      *)
(* shows. The tree, the annotations in files (diagnostics) and the detail  *)
(* panel are filled by commands that wait for a token and then for the     *)
(* API, while events of the sync engine change them. That every getToken   *)
(* returns or throws is AuthManager's CallsAnswered.                       *)
(*                                                                         *)
(* Bugs are numbered in the order of their creation. Of an event only      *)
(* bug_created has an effect: the hub's bug_updated has no currentState,   *)
(* so the handler throws before it changes anything, and the              *)
(* deduplicated one only logs. A created event has the worker's field      *)
(* names, and so no codeLocation for addDiagnostic.                        *)
(***************************************************************************)
EXTENDS Naturals, Sequences, SequencesExt

CONSTANTS Task,      \* commands that can be under way at once
          MaxBugs,   \* bound: bugs created
          Page,      \* the limit refreshBugs asks for
          InFile     \* bugs with a file_path

VARIABLES created,     \* the bugs in the database: 1..created
          announced,   \* the bugs whose event the editor was sent
          tree,        \* BugTreeDataProvider.bugs
          diagnostics, \* the bugs annotated in files, in order
          panel,       \* the bug of BugDetailPanel.currentPanel
          job          \* the commands under way

editorVars == <<created, announced, tree, diagnostics, panel, job>>

ASSUME EditorAssumption == /\ MaxBugs \in Nat /\ Page \in Nat \ {0}
                           /\ InFile \subseteq 1..MaxBugs

Bug == 1..MaxBugs

(* page: the API's answer under way; since: history, the bugs announced    *)
(* after that answer was made.                                             *)
Job == [pc : {"none", "token", "asked", "answered"},
        what : {"list", "details"}, bug : 0..MaxBugs,
        page : Seq(Bug), since : SUBSET Bug]

NoJob == [pc |-> "none", what |-> "list", bug |-> 0, page |-> <<>>, since |-> {}]

EditorTypeOK ==
    /\ created \in 0..MaxBugs /\ announced \in SUBSET Bug
    /\ tree \in Seq(Bug) /\ diagnostics \in Seq(Bug) /\ panel \in 0..MaxBugs
    /\ job \in [Task -> Job]

EditorInit ==
    /\ created = 0 /\ announced = {} /\ tree = <<>> /\ diagnostics = <<>>
    /\ panel = 0 /\ job = [t \in Task |-> NoJob]

screen == <<created, announced, tree, diagnostics, panel>>

-----------------------------------------------------------------------------
(* A command begins with getToken, which returns a token or throws.        *)
Begins(t, what, b) ==
    /\ job[t].pc = "none"
    /\ job' = [job EXCEPT ![t] =
                 [pc |-> "token", what |-> what, bug |-> b, page |-> <<>>, since |-> {}]]
    /\ UNCHANGED screen

RefreshBugs(t) == Begins(t, "list", 0)
ShowBugDetails(t) == \E i \in DOMAIN tree : Begins(t, "details", tree[i])

TokenReturned(t) ==
    /\ job[t].pc = "token"
    /\ job' = [job EXCEPT ![t].pc = "asked"]
    /\ UNCHANGED screen

(* The newest Page bugs of the first n, newest first.                      *)
Newest(n) == [i \in 1..(IF n < Page THEN n ELSE Page) |-> n + 1 - i]

(* Mutation of ApiAnswers: the list is not sorted newest first.            *)
ApiAnswersOldest(t) ==
    /\ job[t].pc = "asked"
    /\ job' = [job EXCEPT ![t].pc = "answered",
                          ![t].page = Reverse(Newest(IF created < Page THEN created ELSE Page))]
    /\ UNCHANGED screen

ApiAnswers(t) ==
    /\ job[t].pc = "asked"
    /\ job' = [job EXCEPT ![t].pc = "answered",
                          ![t].page = IF job[t].what = "list" THEN Newest(created) ELSE <<>>]
    /\ UNCHANGED screen

(* bugs.forEach(addDiagnostic): those without a file_path are passed over. *)
InFiles(bugs) ==
    LET upTo[n \in 0..Len(bugs)] ==
            IF n = 0 THEN <<>>
            ELSE IF bugs[n] \in InFile THEN Append(upTo[n - 1], bugs[n])
            ELSE upTo[n - 1]
    IN  upTo[Len(bugs)]

(* Mutation of Repopulate: the old annotations are not cleared.            *)
RepopulateUncleared(bugs) ==
    /\ tree' = bugs /\ diagnostics' = diagnostics \o InFiles(bugs)
    /\ UNCHANGED panel

(* refreshBugs: clear, setBugs and addDiagnostic of each.                  *)
Repopulate(bugs) ==
    /\ tree' = bugs /\ diagnostics' = InFiles(bugs)
    /\ UNCHANGED panel

(* createOrShow: the one panel there is gets the bug, or a new one does.   *)
CreateOrShow(b) == panel' = b /\ UNCHANGED <<tree, diagnostics>>

AnswerArrives(t) ==
    /\ job[t].pc = "answered"
    /\ \/ job[t].what = "list" /\ Repopulate(job[t].page)
       \/ job[t].what = "details" /\ CreateOrShow(job[t].bug)
    /\ job' = [job EXCEPT ![t] = NoJob]
    /\ UNCHANGED <<created, announced>>

(* getToken throws, or the request fails: a warning.                       *)
CommandFails(t) ==
    /\ job[t].pc # "none"
    /\ job' = [job EXCEPT ![t] = NoJob]
    /\ UNCHANGED screen

(* A bug is stored, and its event reaches the editor some time later.      *)
Create ==
    /\ created < MaxBugs /\ created' = created + 1
    /\ UNCHANGED <<announced, tree, diagnostics, panel, job>>

AddBug(b) == tree' = IF Contains(tree, b) THEN tree ELSE <<b>> \o tree

(* bug:created: addDiagnostic has no effect, addBug puts it first.         *)
BugCreated(b) ==
    /\ b <= created /\ b \notin announced
    /\ announced' = announced \cup {b}
    /\ AddBug(b)
    /\ job' = [t \in Task |-> IF job[t].pc = "answered" /\ job[t].what = "list"
                              THEN [job[t] EXCEPT !.since = @ \cup {b}] ELSE job[t]]
    /\ UNCHANGED <<created, diagnostics, panel>>

ClosePanel ==
    /\ panel' = 0 /\ panel # 0
    /\ UNCHANGED <<created, announced, tree, diagnostics, job>>

RestartEditor ==
    /\ tree' = <<>> /\ diagnostics' = <<>> /\ panel' = 0
    /\ job' = [t \in Task |-> NoJob]
    /\ UNCHANGED <<created, announced>>

EditorNext ==
    \/ \E t \in Task : \/ RefreshBugs(t) \/ ShowBugDetails(t)
                       \/ TokenReturned(t) \/ ApiAnswers(t) \/ AnswerArrives(t)
                       \/ CommandFails(t)
    \/ \E b \in Bug : BugCreated(b)
    \/ Create \/ ClosePanel \/ RestartEditor

EditorSpec == EditorInit /\ [][EditorNext]_editorVars

-----------------------------------------------------------------------------
(* A bug leaves the tree, short of a restart, only by a refresh that was   *)
(* answered before the bug was announced, or whose page is full of newer   *)
(* ones: of refreshes that overlap each other and events.                  *)
BugsStayListed ==
    [][\A b \in Range(tree) \ Range(tree') :
          \/ RestartEditor
          \/ \E t \in Task : /\ AnswerArrives(t)
                             /\ \/ b \in job[t].since
                                \/ b \notin announced
                                \/ Len(tree') = Page /\ \A i \in 1..Page : tree'[i] > b]_editorVars

(* A bug is in the tree once, and in its file's annotations once if and    *)
(* only if it is in the part of the tree that the last refresh brought:    *)
(* those that events brought in since are not annotated.                   *)
AnnotationsMatchTree ==
    /\ IsInjective(tree)
    /\ \E n \in 0..Len(tree) : diagnostics = InFiles(SubSeq(tree, n + 1, Len(tree)))

(* "Map sync events -> VS Code Diagnostics (inline annotations)"           *)
(* (extension.ts): a bug in a file that the tree shows, brought in by an   *)
(* event or by a refresh, is annotated there.                              *)
ListedIsAnnotated == Range(tree) \cap InFile \subseteq Range(diagnostics)
=============================================================================
