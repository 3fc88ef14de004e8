---------------------------- MODULE RepoPrompts ----------------------------
(***************************************************************************)
(* The two panels that edit one prompt per repository: the review styles   *)
(* (ReviewStylesPanel.tsx), where an analysis may write the prompt, and    *)
(* the agent's instructions (AgentInstructionsPanel.tsx).  A list and one  *)
(* detail per repository are cached; the draft in the editor is set by an  *)
(* effect that runs when the prompt or the name of the detail changes.     *)
(***************************************************************************)
EXTENDS Integers

CONSTANTS
    Repos,      \* repositories, as normalizeRepoFullName gives them
    NoRepo,     \* null: nothing selected, or a text that names no repository
    Prompts,    \* prompts, without the empty one, which is 0
    MaxClicks   \* bound on what the user does

VARIABLES
    panel,      \* "styles" or "instructions"
    server,     \* external: the records, [on, prompt, running] of each repository
    list,       \* cached: ["reviewStyles"] or ["agentInstructions"]
    detail,     \* cached: ["reviewStyle", r] or ["agentInstruction", r]
    listAsked,  \* the answer on its way to a request for the list, or Absent
    asked,      \* the same for the details
    selected, draft, addRepo,
    seen,       \* the dependencies of the effect when it last ran
    calls,      \* mutations on their way
    origin,     \* ghost: the repository the draft was last set for
    behind,     \* ghost: repositories changed without a word to their detail
    clicks

queries == <<server, list, detail, listAsked, asked>>
editor == <<selected, draft, seen, origin>>
vars == <<panel, queries, editor, addRepo, calls, behind, clicks>>

Absent == [on |-> FALSE, prompt |-> 0, running |-> FALSE]
Blank == [Absent EXCEPT !.on = TRUE]
Missing == [r \in Repos |-> Absent]

Init ==
    /\ panel \in {"styles", "instructions"}
    /\ server \in [Repos -> {Absent, Blank} \cup {[Blank EXCEPT !.prompt = p] : p \in Prompts}]
    /\ list = server /\ detail = Missing /\ listAsked = {} /\ asked = Missing
    /\ selected = NoRepo /\ draft = 0 /\ addRepo = NoRepo
    /\ seen = <<>> /\ calls = {} /\ origin = NoRepo /\ behind = {} /\ clicks = 0

Click == clicks < MaxClicks /\ clicks' = clicks + 1

----------------------------------------------------------------------------
(* The effect that sets the draft, after a step that left the details d     *)
(* with r selected.                                                         *)
Loaded(d, r) == r # NoRepo /\ d[r].on
Deps(d, r) == IF Loaded(d, r) THEN <<d[r].prompt, r>> ELSE <<>>

(* Mutant: the effect looks at the prompt only.                             *)
MutSync(d, r) ==
    /\ seen' = Deps(d, r)
    /\ IF Loaded(d, r) /\ (seen = <<>> \/ seen[1] # d[r].prompt)
         THEN draft' = d[r].prompt /\ origin' = r
         ELSE UNCHANGED <<draft, origin>>

Sync(d, r) ==
    /\ seen' = Deps(d, r)
    /\ IF Loaded(d, r) /\ Deps(d, r) # seen
         THEN draft' = d[r].prompt /\ origin' = r
         ELSE UNCHANGED <<draft, origin>>

(* A request reads the record; one for a record that is gone fails.         *)
UpToDate(r) == IF r # NoRepo /\ server'[r].on THEN behind \ {r} ELSE behind

(* An answer sets the cache; an error leaves it as it is.                *)
ListAnswer(l) ==
    /\ l \in listAsked
    /\ list' = l /\ listAsked' = {}
    /\ UNCHANGED <<panel, server, detail, asked, editor, addRepo, calls, behind, clicks>>

DetailAnswer(r) ==
    /\ asked[r].on
    /\ detail' = [detail EXCEPT ![r] = asked[r]]
    /\ asked' = [asked EXCEPT ![r] = Absent]
    /\ Sync(detail', selected)
    /\ UNCHANGED <<panel, server, list, listAsked, selected, addRepo, calls, behind, clicks>>

(* refetchInterval: while an analysis is known to run.                      *)
PollList ==
    /\ listAsked = {} /\ \E r \in Repos : list[r].running
    /\ listAsked' = {server}
    /\ UNCHANGED <<panel, server, list, detail, asked, editor, addRepo, calls, behind, clicks>>

PollDetail ==
    /\ Loaded(detail, selected) /\ detail[selected].running /\ ~asked[selected].on
    /\ UNCHANGED server
    /\ asked' = [asked EXCEPT ![selected] = server[selected]]
    /\ behind' = UpToDate(selected)
    /\ UNCHANGED <<panel, list, detail, listAsked, editor, addRepo, calls, clicks>>

----------------------------------------------------------------------------
(* A row is selected: its detail is fetched if there is none in the cache   *)
(* or it is older than staleTime.                                           *)
SelectRow(r, old) ==
    /\ Click /\ list[r].on
    /\ selected' = r /\ UNCHANGED server
    /\ IF ~detail[r].on \/ old
         THEN asked' = [asked EXCEPT ![r] = server[r]] /\ behind' = UpToDate(r)
         ELSE UNCHANGED <<asked, behind>>
    /\ Sync(detail, r)
    /\ UNCHANGED <<panel, list, detail, listAsked, addRepo, calls>>

active == IF Loaded(detail, selected) THEN detail[selected] ELSE IF selected = NoRepo THEN Absent ELSE list[selected]
isPending(kind) == \E c \in calls : c.kind = kind
Mutate(kind, r, p) == calls' = calls \cup {[kind |-> kind, repo |-> r, prompt |-> p, n |-> clicks]}
Pressed == UNCHANGED <<panel, queries, editor, addRepo, behind>>

(* The text of the box, as the repository it names.                         *)
TypeRepo(r) ==
    /\ Click /\ r # addRepo /\ addRepo' = r
    /\ UNCHANGED <<panel, queries, editor, calls, behind>>
canAdd == addRepo # NoRepo /\ ~list[addRepo].on

(* By Enter; the button looks at isPending as well.                         *)
handleAdd ==
    /\ Click /\ canAdd
    /\ Mutate("create", addRepo, 0)
    /\ Pressed

(* The editor: a running analysis disables it.                              *)
TypePrompt(p) ==
    /\ Click /\ active.on /\ ~active.running /\ p # draft
    /\ draft' = p
    /\ UNCHANGED <<panel, queries, selected, seen, origin, addRepo, calls, behind>>

AnalyzeButton ==
    /\ Click /\ panel = "styles" /\ active.on /\ ~active.running /\ ~isPending("analyze")
    /\ Mutate("analyze", selected, 0)
    /\ Pressed
CancelButton ==
    /\ Click /\ panel = "styles" /\ active.on /\ active.running /\ ~isPending("cancel")
    /\ Mutate("cancel", selected, 0)
    /\ Pressed

(* Save is for a prompt that is not empty, or for changed instructions.     *)
SavePromptButton == draft # 0
dirty == draft # active.prompt
SaveButton ==
    /\ Click /\ active.on /\ ~isPending("save")
    /\ IF panel = "styles" THEN SavePromptButton ELSE dirty
    /\ Mutate("save", selected, draft)
    /\ Pressed

RemoveButton ==
    /\ Click /\ active.on /\ ~isPending("remove")
    /\ Mutate("remove", selected, 0)
    /\ Pressed

----------------------------------------------------------------------------
(* What the server does with a call (external).                             *)
Served(c) ==
    LET rec == server[c.repo] IN
    [server EXCEPT ![c.repo] =
        CASE c.kind = "create" -> IF rec.on THEN rec ELSE Blank
          [] c.kind = "remove" -> Absent
          [] ~rec.on -> rec
          [] c.kind = "save" -> [rec EXCEPT !.prompt = c.prompt]
          [] OTHER -> [rec EXCEPT !.running = (c.kind = "analyze")]]

(* The analysis ends, with a prompt or without.                             *)
AnalysisEnds(r, p) ==
    /\ server[r].running
    /\ server' = [server EXCEPT ![r].running = FALSE, ![r].prompt = IF p = 0 THEN @ ELSE p]
    /\ UNCHANGED <<panel, list, detail, listAsked, asked, editor, addRepo, calls, behind, clicks>>

(* invalidateQueries refetches the list and the detail of the repository    *)
(* that is selected now.                                                    *)
Invalidate(r) ==
    /\ listAsked' = {server'}
    /\ asked' = IF r = NoRepo THEN asked ELSE [asked EXCEPT ![r] = server'[r]]

(* analyze, save and cancel have succeeded.  Mutant: only the list is asked *)
(* for again.                                                               *)
MutUpdated(c) ==
    /\ c \in calls /\ c.kind \in {"analyze", "save", "cancel"} /\ server[c.repo].on
    /\ calls' = calls \ {c} /\ server' = Served(c)
    /\ Invalidate(NoRepo)
    /\ behind' = IF c.repo = selected THEN UpToDate(selected) ELSE UpToDate(selected) \cup {c.repo}
    /\ UNCHANGED <<panel, list, detail, editor, addRepo, clicks>>

Updated(c) ==
    /\ c \in calls /\ c.kind \in {"analyze", "save", "cancel"} /\ server[c.repo].on
    /\ calls' = calls \ {c} /\ server' = Served(c)
    /\ Invalidate(selected)
    /\ behind' = IF c.repo = selected THEN UpToDate(selected) ELSE UpToDate(selected) \cup {c.repo}
    /\ UNCHANGED <<panel, list, detail, editor, addRepo, clicks>>

(* The repository that was created is selected.                             *)
Created(c) ==
    /\ c \in calls /\ c.kind = "create"
    /\ calls' = calls \ {c} /\ server' = Served(c)
    /\ selected' = c.repo /\ addRepo' = NoRepo
    /\ Invalidate(IF detail[c.repo].on THEN NoRepo ELSE c.repo)
    /\ behind' = IF detail[c.repo].on THEN behind ELSE UpToDate(c.repo)
    /\ Sync(detail, c.repo)
    /\ UNCHANGED <<panel, list, detail, clicks>>

(* The detail of a repository that was removed stays in the cache.          *)
Removed(c) ==
    /\ c \in calls /\ c.kind = "remove"
    /\ calls' = calls \ {c} /\ server' = Served(c)
    /\ Invalidate(NoRepo)
    /\ behind' = behind \cup {c.repo}
    /\ IF selected = c.repo
         THEN selected' = NoRepo /\ draft' = 0 /\ seen' = <<>> /\ origin' = NoRepo
         ELSE UNCHANGED editor
    /\ UNCHANGED <<panel, list, detail, addRepo, clicks>>

(* A call fails: it was not served, or its answer was lost.                 *)
Fails(c, lost) ==
    /\ c \in calls /\ calls' = calls \ {c}
    /\ IF lost THEN server' = Served(c) /\ behind' = behind \cup {c.repo} ELSE UNCHANGED <<server, behind>>
    /\ UNCHANGED <<panel, list, detail, listAsked, asked, editor, addRepo, clicks>>

Next ==
    \/ PollList \/ PollDetail \/ handleAdd \/ AnalyzeButton \/ CancelButton \/ SaveButton \/ RemoveButton
    \/ \E l \in listAsked : ListAnswer(l)
    \/ \E r \in Repos : DetailAnswer(r) \/ (\E old \in BOOLEAN : SelectRow(r, old)) \/ (\E p \in Prompts \cup {0} : AnalysisEnds(r, p))
    \/ \E r \in Repos \cup {NoRepo} : TypeRepo(r)
    \/ \E p \in Prompts \cup {0} : TypePrompt(p)
    \/ \E c \in calls : Updated(c) \/ Created(c) \/ Removed(c) \/ \E lost \in BOOLEAN : Fails(c, lost)

Spec == Init /\ [][Next]_vars

----------------------------------------------------------------------------
Records == [on : BOOLEAN, prompt : Prompts \cup {0}, running : BOOLEAN]

TypeOK ==
    /\ {server, list, detail, asked} \subseteq [Repos -> Records] /\ listAsked \subseteq [Repos -> Records]
    /\ {selected, addRepo, origin} \subseteq Repos \cup {NoRepo} /\ behind \subseteq Repos
    /\ draft \in Prompts \cup {0} /\ clicks \in 0..MaxClicks

(* Once the detail of the selected repository is there, the draft in the    *)
(* editor was set for that repository and not for the one shown before,     *)
(* also if their prompts are equal: saving it cannot write the one's draft  *)
(* over the other's.                                                        *)
DraftIsOfRepo == Loaded(detail, selected) => origin = selected

(* When nothing is on its way and no analysis is known to run, the prompt   *)
(* that is shown is the server's; except for a repository that was changed  *)
(* while another was selected, whose answer was lost, or that was removed   *)
(* and added again, until its detail is older than staleTime.               *)
PromptConverges ==
    Loaded(detail, selected) /\ calls = {} /\ ~asked[selected].on /\ ~detail[selected].running /\ selected \notin behind
        => detail[selected] = server[selected]

----------------------------------------------------------------------------
(* Why they hold.  The effect has run for what is on display.  What is      *)
(* known of a repository that is not behind, by an answer on its way or     *)
(* else by its detail, is the server's record, or says that an analysis     *)
(* runs, so that it will be asked for again; and of a record that is gone   *)
(* nothing is known.                                                        *)
Calls == calls \subseteq [kind : {"create", "analyze", "cancel", "save", "remove"}, repo : Repos,
                          prompt : Prompts \cup {0}, n : Int]
Synced == seen = Deps(detail, selected)
Fresh(rec, r) == rec = server[r] \/ rec.running
Known ==
    \A r \in Repos \ behind :
        /\ asked[r].on => Fresh(asked[r], r)
        /\ ~asked[r].on /\ detail[r].on => Fresh(detail[r], r)
Gone == \A r \in Repos \ behind : ~server[r].on => ~detail[r].on /\ ~asked[r].on

Inv == TypeOK /\ Calls /\ Synced /\ DraftIsOfRepo /\ Known /\ Gone

=============================================================================
