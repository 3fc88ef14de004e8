----------------------------- MODULE PromptBar -----------------------------
(***************************************************************************)
(* The prompt bar of the desktop program (ported/PromptBar.tsx), which is  *)
(* one component for all sessions: drafts are kept per session, while the  *)
(* indices of its menus, the file list and the position in an approval are *)
(* state of the component, reset by effects when what they belong to       *)
(* changes.                                                                *)
(***************************************************************************)
EXTENDS Integers, FiniteSets

CONSTANTS
    Sessions,       \* sessions that can be shown
    ProjectOf,      \* the project path of each
    NoFolder,       \* no path
    Commands,       \* how many commands "/" lists, "/x" lists none
    FileCount,      \* how many files of each project match a tag
    MaxRequests,    \* bound on the requests for approval
    MaxClicks       \* bound on what the user does

VARIABLES
    session,        \* the session on display
    drafts,         \* of each session: "", "text", "/", "/x", "/c " or "@"
    commandSelectedIndex, \* NaN is -1
    fileSelectedIndex,
    projectFiles,   \* the project whose files are listed, NoFolder for []
    filesLoading,
    listing,        \* listFiles calls on their way: the project, and whether cancelled
    pending,        \* of each session: the request for approval, 0 for none
    asked,          \* requests made so far
    approvalSelectedIndex,
    menu,           \* "none", "model" or "permission"
    permissionMode, \* "default" or "full"
    decided,        \* decisions sent: the request and the decision
    moved,          \* ghost: requests whose selection was moved while they were shown
    clicks

files == <<projectFiles, filesLoading, listing>>
approvals == <<pending, asked, approvalSelectedIndex, decided, moved>>
menus == <<menu, permissionMode>>
vars == <<session, drafts, commandSelectedIndex, fileSelectedIndex, files, approvals, menus, clicks>>

Drafts == {"", "text", "/", "/x", "/c ", "@"}
options == <<"approve", "auto-approve", "reject">>

Init ==
    /\ session \in Sessions
    /\ drafts = [s \in Sessions |-> ""]
    /\ commandSelectedIndex = 0 /\ fileSelectedIndex = 0
    /\ projectFiles = NoFolder
    /\ filesLoading = (ProjectOf[session] # NoFolder)
    /\ listing = IF filesLoading THEN {[project |-> ProjectOf[session], cancelled |-> FALSE, n |-> 0]} ELSE {}
    /\ pending = [s \in Sessions |-> 0] /\ asked = 0 /\ approvalSelectedIndex = 0
    /\ menu = "none" /\ permissionMode = "default" /\ decided = {} /\ moved = {} /\ clicks = 0

Click == clicks < MaxClicks /\ clicks' = clicks + 1

----------------------------------------------------------------------------
(* What is derived from a draft.                                            *)
query == drafts[session]
commandQuery(q) == IF q = "/x" THEN "x" ELSE IF q = "/c " THEN "c" ELSE ""
fileQuery(q) == q = "@"
Count(q) == IF q = "/" THEN Commands ELSE 0
hasPendingApproval == pending[session] # 0
showCommandAutocomplete == ~hasPendingApproval /\ query \in {"/", "/x"}
showFileAutocomplete == ~hasPendingApproval /\ fileQuery(query)
fileSuggestions == IF projectFiles = NoFolder THEN 0 ELSE FileCount[projectFiles]

(* The effects that reset the indices, after a step that left query q.      *)
ResetIndices(q) ==
    /\ commandSelectedIndex' = IF commandQuery(q) # commandQuery(query) THEN 0 ELSE commandSelectedIndex
    /\ fileSelectedIndex' = IF fileQuery(q) # fileQuery(query) THEN 0 ELSE fileSelectedIndex
setQuery(q) == drafts' = [drafts EXCEPT ![session] = q] /\ ResetIndices(q)

(* The effects of a request that is shown or goes, after a step that left   *)
(* the requests p and session s.  Mutant: the selection stays.              *)
MutResetApproval(p, s) ==
    /\ approvalSelectedIndex' = approvalSelectedIndex
    /\ menu' = IF p[s] # 0 /\ ~hasPendingApproval THEN "none" ELSE menu

ResetApproval(p, s) ==
    /\ approvalSelectedIndex' = IF p[s] # pending[session] THEN 0 ELSE approvalSelectedIndex
    /\ menu' = IF p[s] # 0 /\ ~hasPendingApproval THEN "none" ELSE menu

----------------------------------------------------------------------------
(* The effect of another project: its files are listed, and what is still   *)
(* on its way for the last one is cancelled.  Mutant: it is not.            *)
MutLoadFiles(p) ==
    IF p = NoFolder THEN projectFiles' = NoFolder /\ filesLoading' = FALSE /\ UNCHANGED listing
    ELSE /\ filesLoading' = TRUE /\ UNCHANGED projectFiles
         /\ listing' = listing \cup {[project |-> p, cancelled |-> FALSE, n |-> clicks]}

LoadFiles(p) ==
    LET cancelled == {[l EXCEPT !.cancelled = TRUE] : l \in listing} IN
    IF p = NoFolder THEN projectFiles' = NoFolder /\ filesLoading' = FALSE /\ listing' = cancelled
    ELSE /\ filesLoading' = TRUE /\ UNCHANGED projectFiles
         /\ listing' = cancelled \cup {[project |-> p, cancelled |-> FALSE, n |-> clicks]}

FilesListed(l, ok) ==
    /\ l \in listing /\ listing' = listing \ {l}
    /\ IF l.cancelled THEN UNCHANGED <<projectFiles, filesLoading>>
       ELSE projectFiles' = (IF ok THEN l.project ELSE NoFolder) /\ filesLoading' = FALSE
    /\ UNCHANGED <<session, drafts, commandSelectedIndex, fileSelectedIndex, approvals, menus, clicks>>

(* Another session is shown.                                                *)
Show(s) ==
    /\ Click /\ s # session /\ session' = s
    /\ ResetIndices(drafts[s])
    /\ ResetApproval(pending, s)
    /\ IF ProjectOf[s] = ProjectOf[session] THEN UNCHANGED files ELSE LoadFiles(ProjectOf[s])
    /\ UNCHANGED <<drafts, pending, asked, decided, moved, permissionMode>>

----------------------------------------------------------------------------
(* Requests for approval, and what the program makes of a decision          *)
(* (external).                                                              *)
Ask(s) ==
    /\ asked < MaxRequests /\ pending[s] = 0
    /\ asked' = asked + 1 /\ pending' = [pending EXCEPT ![s] = asked + 1]
    /\ ResetApproval(pending', session)
    /\ UNCHANGED <<session, drafts, commandSelectedIndex, fileSelectedIndex, files, decided, moved, permissionMode, clicks>>

Settle(d) ==
    /\ d \in decided /\ \E s \in Sessions : pending[s] = d.request
    /\ pending' = [s \in Sessions |-> IF pending[s] = d.request THEN 0 ELSE pending[s]]
    /\ ResetApproval(pending', session)
    /\ UNCHANGED <<session, drafts, commandSelectedIndex, fileSelectedIndex, files, asked, decided, moved, permissionMode, clicks>>

submitApprovalDecision(decision) == decided' = decided \cup {[request |-> pending[session], decision |-> decision]}

(* handleApprovalKeyDown: the arrows go round, Enter takes the option that  *)
(* is selected and Escape rejects.                                          *)
ApprovalArrow(step) ==
    /\ Click /\ hasPendingApproval
    /\ approvalSelectedIndex' = (approvalSelectedIndex + step) % 3
    /\ moved' = moved \cup {pending[session]}
    /\ UNCHANGED <<session, drafts, commandSelectedIndex, fileSelectedIndex, files, pending, asked, decided, menus>>

ApprovalEnter ==
    /\ Click /\ hasPendingApproval
    /\ submitApprovalDecision(options[approvalSelectedIndex + 1])
    /\ UNCHANGED <<session, drafts, commandSelectedIndex, fileSelectedIndex, files, pending, asked, approvalSelectedIndex, moved, menus>>

(* Escape, and the Skip button.                                             *)
Reject ==
    /\ Click /\ hasPendingApproval
    /\ submitApprovalDecision("reject")
    /\ UNCHANGED <<session, drafts, commandSelectedIndex, fileSelectedIndex, files, pending, asked, approvalSelectedIndex, moved, menus>>

OptionButton(index) ==
    /\ Click /\ hasPendingApproval
    /\ approvalSelectedIndex' = index /\ moved' = moved \cup {pending[session]}
    /\ submitApprovalDecision(options[index + 1])
    /\ UNCHANGED <<session, drafts, commandSelectedIndex, fileSelectedIndex, files, pending, asked, menus>>

----------------------------------------------------------------------------
(* The box.                                                                 *)
Box == UNCHANGED <<session, files, approvals, menus>>

handleInputChange(q) == Click /\ ~hasPendingApproval /\ q # query /\ setQuery(q) /\ Box

(* Remainder as in JavaScript: by zero it is NaN, and stays that.           *)
Step(index, step, count) == IF count = 0 \/ index = -1 THEN -1 ELSE (index + step) % count

CommandArrow(step) ==
    /\ Click /\ showCommandAutocomplete
    /\ commandSelectedIndex' = Step(commandSelectedIndex, step, Count(query))
    /\ UNCHANGED <<drafts, fileSelectedIndex>> /\ Box

Chosen == commandSelectedIndex # -1 /\ commandSelectedIndex < Count(query)
CommandTab == Click /\ showCommandAutocomplete /\ Chosen /\ setQuery("/c ") /\ Box
CommandEscape == Click /\ showCommandAutocomplete /\ setQuery("") /\ Box
CommandEnter == Click /\ showCommandAutocomplete /\ Chosen /\ setQuery("") /\ Box

FileArrow(step) ==
    /\ Click /\ showFileAutocomplete /\ fileSuggestions > 0
    /\ fileSelectedIndex' = Step(fileSelectedIndex, step, fileSuggestions)
    /\ UNCHANGED <<drafts, commandSelectedIndex>> /\ Box

handleFileSelect ==
    /\ Click /\ showFileAutocomplete /\ fileSelectedIndex < fileSuggestions
    /\ setQuery("text") /\ Box
FileEscape == Click /\ showFileAutocomplete /\ setQuery("") /\ Box

(* Enter sends what is in the box; a tag waits for the files.               *)
Submit ==
    /\ Click /\ ~hasPendingApproval /\ query # "" /\ ~showCommandAutocomplete
    /\ showFileAutocomplete => fileSuggestions = 0 /\ ~filesLoading
    /\ setQuery("") /\ Box

----------------------------------------------------------------------------
(* The menus, above the box and in an approval; a click outside closes.     *)
ToggleMenu(m) ==
    /\ Click /\ menu' = IF menu = m THEN "none" ELSE m
    /\ UNCHANGED <<session, drafts, commandSelectedIndex, fileSelectedIndex, files, approvals, permissionMode>>

PickPermission(mode) ==
    /\ Click /\ menu = "permission" /\ menu' = "none" /\ permissionMode' = mode
    /\ UNCHANGED <<session, drafts, commandSelectedIndex, fileSelectedIndex, files, approvals>>

handleModelSelect ==
    /\ Click /\ menu = "model" /\ menu' = "none"
    /\ UNCHANGED <<session, drafts, commandSelectedIndex, fileSelectedIndex, files, approvals, permissionMode>>

(* Shift and Tab.                                                           *)
TogglePermission ==
    /\ Click /\ ~hasPendingApproval
    /\ permissionMode' = IF permissionMode = "default" THEN "full" ELSE "default"
    /\ UNCHANGED <<session, drafts, commandSelectedIndex, fileSelectedIndex, files, approvals, menu>>

Next ==
    \/ ApprovalEnter \/ Reject \/ CommandTab \/ CommandEscape \/ CommandEnter \/ handleFileSelect \/ FileEscape \/ Submit
    \/ handleModelSelect \/ TogglePermission
    \/ \E s \in Sessions : Show(s) \/ Ask(s)
    \/ \E l \in listing, ok \in BOOLEAN : FilesListed(l, ok)
    \/ \E d \in decided : Settle(d)
    \/ \E step \in {-1, 1} : ApprovalArrow(step) \/ CommandArrow(step) \/ FileArrow(step)
    \/ \E index \in 0..2 : OptionButton(index)
    \/ \E q \in {"text", "/", "/x", "@"} : handleInputChange(q)
    \/ \E m \in {"model", "permission"} : ToggleMenu(m)
    \/ \E mode \in {"default", "full"} : PickPermission(mode)

Spec == Init /\ [][Next]_vars

----------------------------------------------------------------------------
TypeOK ==
    /\ session \in Sessions /\ drafts \in [Sessions -> Drafts] /\ approvalSelectedIndex \in 0..2
    /\ menu \in {"none", "model", "permission"} /\ clicks \in 0..MaxClicks

(* Unless they are being listed, the files that can be tagged are those of  *)
(* the project of the session on display, whatever order the answers for    *)
(* this and for other projects arrive in.                                   *)
FilesOfProject == ~filesLoading => projectFiles \in {ProjectOf[session], NoFolder}

(* A request for approval comes up with the first option selected: what is  *)
(* selected has been moved to while this request was shown, and never for   *)
(* one before it or in another session.                                     *)
SelectionIsOwn == hasPendingApproval /\ approvalSelectedIndex # 0 => pending[session] \in moved

----------------------------------------------------------------------------
(* Why the first holds: a listing that was not cancelled is of the project  *)
(* of the session on display.                                               *)
Requested ==
    /\ pending \in [Sessions -> Nat] /\ asked \in Nat /\ filesLoading \in BOOLEAN
    /\ listing \subseteq [project : {ProjectOf[s] : s \in Sessions}, cancelled : BOOLEAN, n : Nat]
ListedIsShown == \A l \in listing : ~l.cancelled => l.project = ProjectOf[session]

Inv == TypeOK /\ Requested /\ ListedIsShown /\ FilesOfProject /\ SelectionIsOwn

=============================================================================
