------------------------------ MODULE TeamAccess ------------------------------
(***************************************************************************)
(* The observability credentials of the administration page (routes/       *)
(* admin.tsx) and the switches for reviewed repositories (routes/          *)
(* review_.repositories.$owner.tsx).  Each request is answered with the    *)
(* state of everything at that time, and the answer replaces the cached    *)
(* state; a request that fails, or whose answer is lost after it was       *)
(* carried out, changes nothing on the page and nothing is fetched again.  *)
(* The repositories are shown in pages.                                    *)
(***************************************************************************)
EXTENDS Integers, FiniteSets, Sequences

CONSTANTS
    Providers,  \* "datadog" and "langsmith"
    MaxRepos,   \* the repositories of an owner are 1..n with n up to this
    PageSize,
    MaxClicks   \* bound on clicks

VARIABLES
    connected,  \* the API's credentials
    cache,      \* creds.data
    typed,      \* providers whose keys are typed in
    requests,   \* requests on their way: [provider, on, done, data, alone]
    settled,    \* ghost: no request since the last one that was alone and answered
    total,      \* ownerRepos.length
    page,
    enabled,    \* the API's enabled repositories
    shownEnabled, toggling, \* the cached ones, and the switch on its way (0: none)
    switched,   \* ghost: the last switch was answered
    clicks

credVars == <<connected, cache, typed, requests, settled>>
repoVars == <<total, page, enabled, shownEnabled, toggling, switched>>
vars == <<credVars, repoVars, clicks>>

Init ==
    /\ connected \in {{}, Providers} /\ cache = connected
    /\ typed = {} /\ requests = {} /\ settled = TRUE
    /\ total \in 0..MaxRepos /\ page = 0
    /\ enabled = {} /\ shownEnabled = {} /\ toggling = [repo |-> 0, on |-> FALSE]
    /\ switched = TRUE
    /\ clicks = 0

Click == clicks < MaxClicks /\ clicks' = clicks + 1

----------------------------------------------------------------------------
(* The row of a provider offers to disconnect it, or has a form to connect  *)
(* it.  Each of the four requests has a mutation and a flag of its own.     *)
MayDisconnect(p) == p \in cache /\ ~\E q \in requests : q.provider = p /\ ~q.on
MayConnect(p) == p \notin cache /\ p \in typed /\ ~\E q \in requests : q.provider = p /\ q.on

TypeKeys(p) ==
    /\ Click /\ p \notin cache \cup typed
    /\ typed' = typed \cup {p}
    /\ UNCHANGED <<connected, cache, requests, settled, repoVars>>

Alone(Q, alone) == {[q EXCEPT !.alone = alone] : q \in Q}
Ask(p, on) ==
    /\ requests' = Alone(requests, FALSE)
                   \cup {[provider |-> p, on |-> on, done |-> FALSE, data |-> {}, alone |-> requests = {}]}
    /\ settled' = FALSE

Connect(p) ==
    /\ Click /\ MayConnect(p)
    /\ Ask(p, TRUE)
    /\ UNCHANGED <<connected, cache, typed, repoVars>>

Disconnect(p) ==
    /\ Click /\ MayDisconnect(p)
    /\ Ask(p, FALSE)
    /\ UNCHANGED <<connected, cache, typed, repoVars>>

Perform(q) ==
    LET new == IF q.on THEN connected \cup {q.provider} ELSE connected \ {q.provider} IN
    /\ q \in requests /\ ~q.done
    /\ connected' = new
    /\ requests' = (requests \ {q}) \cup {[q EXCEPT !.done = TRUE, !.data = new]}
    /\ UNCHANGED <<cache, typed, settled, repoVars, clicks>>

(* Mutant: the status is left to the next refetch.                          *)
MutOnSuccess(q) ==
    /\ q \in requests /\ q.done
    /\ requests' = requests \ {q}
    /\ typed' = IF q.on THEN typed \ {q.provider} ELSE typed
    /\ settled' = q.alone
    /\ UNCHANGED <<connected, cache, repoVars, clicks>>

(* onSuccess: the answer is cached, and the keys are forgotten.             *)
onSuccess(q) ==
    /\ q \in requests /\ q.done
    /\ requests' = requests \ {q}
    /\ cache' = q.data
    /\ typed' = IF q.on THEN typed \ {q.provider} ELSE typed
    /\ settled' = q.alone
    /\ UNCHANGED <<connected, repoVars, clicks>>

(* onError, also of a request that was carried out: a message, and nothing  *)
(* else.                                                                    *)
onError(q) ==
    /\ q \in requests
    /\ requests' = requests \ {q}
    /\ UNCHANGED <<connected, cache, typed, settled, repoVars, clicks>>

----------------------------------------------------------------------------
Least(a, b) == IF a < b THEN a ELSE b
Most(a, b) == IF a > b THEN a ELSE b
totalPages == Most(1, (total + PageSize - 1) \div PageSize)

(* Mutant: the page is not bounded by the pages there are.                  *)
MutSafePage == page
safePage == Least(page, totalPages - 1)
pageStart == safePage * PageSize
pageEnd == Least(pageStart + PageSize, total)
pageRepos == (pageStart + 1)..pageEnd

(* The pager, which is shown when there is more than one page.              *)
Prev ==
    /\ Click /\ total > PageSize /\ safePage # 0
    /\ page' = Most(0, page - 1)
    /\ UNCHANGED <<credVars, total, enabled, shownEnabled, toggling, switched>>

PageNext ==
    /\ Click /\ total > PageSize /\ safePage < totalPages - 1
    /\ page' = Least(totalPages - 1, page + 1)
    /\ UNCHANGED <<credVars, total, enabled, shownEnabled, toggling, switched>>

(* The list is refetched, or the page is opened for another owner.          *)
LoadRepos(n) ==
    /\ Click /\ total' = n
    /\ UNCHANGED <<credVars, page, enabled, shownEnabled, toggling, switched>>

OtherOwner(n) ==
    /\ Click /\ total' = n /\ page' = 0
    /\ UNCHANGED <<credVars, enabled, shownEnabled, toggling, switched>>

(* A switch, of an administrator, one at a time.                            *)
Toggle(r) ==
    /\ Click /\ r \in pageRepos /\ toggling.repo = 0
    /\ toggling' = [repo |-> r, on |-> r \notin shownEnabled] /\ switched' = FALSE
    /\ UNCHANGED <<credVars, total, page, enabled, shownEnabled>>

(* It is answered, or fails before or after it was carried out; a failure   *)
(* has no handler, so the page goes on showing what it showed.              *)
Toggled(done, answered) ==
    /\ toggling.repo # 0 /\ (answered => done)
    /\ LET new == IF toggling.on THEN enabled \cup {toggling.repo} ELSE enabled \ {toggling.repo} IN
       /\ enabled' = IF done THEN new ELSE enabled
       /\ shownEnabled' = IF answered THEN new ELSE shownEnabled
    /\ toggling' = [repo |-> 0, on |-> FALSE] /\ switched' = answered
    /\ UNCHANGED <<credVars, total, page, clicks>>

Next ==
    \/ \E p \in Providers : TypeKeys(p) \/ Connect(p) \/ Disconnect(p)
    \/ \E q \in requests : Perform(q) \/ onSuccess(q) \/ onError(q)
    \/ Prev \/ PageNext
    \/ \E n \in 0..MaxRepos : LoadRepos(n) \/ OtherOwner(n)
    \/ \E r \in 1..MaxRepos : Toggle(r)
    \/ \E done, answered \in BOOLEAN : Toggled(done, answered)

Spec == Init /\ [][Next]_vars

----------------------------------------------------------------------------
TypeOK ==
    /\ connected \subseteq Providers /\ cache \subseteq Providers /\ typed \subseteq Providers
    /\ total \in 0..MaxRepos /\ page \in 0..MaxRepos
    /\ enabled \subseteq 1..MaxRepos /\ shownEnabled \subseteq 1..MaxRepos
    /\ clicks \in 0..MaxClicks

(* A request that was alone from the click to its answer sets the page      *)
(* right for all providers, and an answered switch for all repositories,    *)
(* whatever had failed, got lost or crossed before.  (Nothing else does:    *)
(* after a lost answer, or after two that crossed, the page keeps showing   *)
(* what is not stored.)                                                     *)
AccessShown ==
    /\ settled => cache = connected
    /\ switched => shownEnabled = enabled

(* Whatever the list shrinks to, the page on display has repositories if    *)
(* the owner has any, and lies within them.                                 *)
PageNotEmpty == total > 0 => pageRepos # {} /\ pageRepos \subseteq 1..total

----------------------------------------------------------------------------
(* Why they hold: who is alone has all the others' effects in its answer,   *)
(* and nothing is carried out until it is there.                            *)
Requests == [provider : Providers, on : BOOLEAN, done : BOOLEAN, data : SUBSET Providers, alone : BOOLEAN]
Asked ==
    /\ requests \subseteq Requests
    /\ toggling \in [repo : 0..MaxRepos, on : BOOLEAN] /\ settled \in BOOLEAN /\ switched \in BOOLEAN
AloneIsRight ==
    /\ settled => requests = {} /\ cache = connected
    /\ \A q \in requests : q.alone => requests = {q} /\ (q.done => q.data = connected)
SwitchesShown == switched => toggling.repo = 0 /\ shownEnabled = enabled

Inv == TypeOK /\ Asked /\ AloneIsRight /\ SwitchesShown

=============================================================================
