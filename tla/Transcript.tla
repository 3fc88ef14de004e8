----------------------------- MODULE Transcript -----------------------------
(***************************************************************************)
(* What a thread's page shows of its messages: streamMessagesToUi makes    *)
(* user messages and agent turns of the stream's messages, with the tool   *)
(* calls' state taken from three sources that arrive independently (the    *)
(* assembled calls, the tool messages, the discovered subagents), and      *)
(* buildRenderItems (renderItems.ts) makes the items of a turn, in which   *)
(* neighbouring explorations and subagents are grouped.                    *)
(***************************************************************************)
EXTENDS Integers, Sequences, SequencesExt

CONSTANTS
    Tools,          \* names of tools the agent calls
    Outcomes,       \* how calls return: among "ok", "diff" and "error"
    MaxMessages,    \* bound on messages of users and agent
    MaxCalls        \* bound on tool calls; they have the ids 1..MaxCalls

VARIABLES
    messages,   \* of users and agent, in order
    assembled,  \* stream.toolCalls: the state of each call, or "none"
    results,    \* tool messages: "none", "ok" or "error" for each call
    artifacts,  \* calls whose tool message has a diff
    subagent    \* stream.subagents: one entry, as the map has one per name

vars == <<messages, assembled, results, artifacts, subagent>>

Calls == 1..MaxCalls
NoSubagent == [call |-> 0, status |-> "none"]
\* The text of a user's message stands for its images as well.
User(text) == [author |-> "user", text |-> text, reasoning |-> FALSE, calls |-> <<>>]
Agent(reasoning) == [author |-> "agent", text |-> FALSE, reasoning |-> reasoning, calls |-> <<>>]

CallsOf(ms) == FlattenSeq([i \in DOMAIN ms |-> ms[i].calls])
Made == Len(CallsOf(messages))

----------------------------------------------------------------------------
(* Names that only resemble one of these are left out of Tools.             *)
INTERNAL_TOOLS == {"confirming_completion", "no_op"}
EDIT_TOOLS == {"write_file", "edit_file", "str_replace", "write", "edit", "patch"}
EXECUTE_TOOLS == {"execute", "bash", "shell", "run_terminal_cmd"}
SEARCH_TOOLS == {"glob", "grep", "web_search", "fetch_url", "search"}
READ_TOOLS == {"read_file", "read", "glob", "grep"}
toolKind(name) ==
    CASE name = "task" -> "task"
      [] name = "slack_thread_reply" -> "slack"
      [] name = "linear_comment" -> "linear"
      [] name \in EDIT_TOOLS -> "edit"
      [] name \in EXECUTE_TOOLS -> "execute"
      [] name \in SEARCH_TOOLS -> "search"
      [] name \in READ_TOOLS \ SEARCH_TOOLS -> "read"
      [] name = "think" -> "think"
      [] name \in {"fetch", "http_request"} -> "fetch"
      [] OTHER -> "other"

toolStatus(id) ==
    IF assembled[id] # "none"
      THEN CASE assembled[id] = "finished" -> "completed"
             [] assembled[id] = "error" -> "error"
             [] OTHER -> "in_progress"
      ELSE CASE results[id] = "ok" -> "completed"
             [] results[id] = "error" -> "error"
             [] OTHER -> "in_progress"

(* A discovered subagent's state replaces that of its call.                 *)
subagentStatus(id) ==
    IF subagent.call # id THEN toolStatus(id)
    ELSE IF subagent.status = "complete" THEN "completed"
    ELSE IF subagent.status = "error" THEN "error" ELSE "in_progress"

(* The diff of the tool message, or one made of the arguments of a call     *)
(* that edits.                                                              *)
HasDiff(call) == call.id \in artifacts \/ toolKind(call.name) = "edit"

ToolChunk(call) ==
    [kind |-> "tool", of |-> call.id, tool |-> toolKind(call.name), status |-> subagentStatus(call.id), diff |-> HasDiff(call)]
Chunk(kind, i) == [kind |-> kind, of |-> i, tool |-> "none", status |-> "none", diff |-> FALSE]
If(b, chunk) == IF b THEN <<chunk>> ELSE <<>>

(* The chunks of message i.                                                 *)
ChunksOf(i) ==
    LET m == messages[i]
        shown == [k \in DOMAIN m.calls |-> If(m.calls[k].name \notin INTERNAL_TOOLS, ToolChunk(m.calls[k]))]
    IN  If(m.reasoning, Chunk("reasoning", i)) \o If(m.text, Chunk("text", i)) \o FlattenSeq(shown)

(* Of the texts of a turn the last one is kept.                             *)
mergeTextChunks(chunks) ==
    LET texts == {k \in DOMAIN chunks : chunks[k].kind = "text"}
    IN  FlattenSeq([k \in DOMAIN chunks |-> If(k \in texts => \A j \in texts : j <= k, chunks[k])])

(* The fold over the messages; turn is the agent's turn that is open.       *)
NoTurn == [id |-> 0, chunks |-> <<>>]
flushAgentTurn(acc) ==
    IF acc.turn = NoTurn THEN acc
    ELSE [ui |-> Append(acc.ui, [id |-> acc.turn.id, author |-> "agent", chunks |-> mergeTextChunks(acc.turn.chunks)]),
          turn |-> NoTurn]
appendAgentChunks(acc, i) ==
    IF acc.turn = NoTurn THEN [acc EXCEPT !.turn = [id |-> i, chunks |-> ChunksOf(i)]]
    ELSE [acc EXCEPT !.turn.chunks = @ \o ChunksOf(i)]

(* Mutant: the turn that is open stays open.                                *)
MutHumanMessage(acc, i) ==
    IF ChunksOf(i) = <<>> THEN acc
    ELSE [acc EXCEPT !.ui = Append(@, [id |-> i, author |-> "user", chunks |-> ChunksOf(i)])]
HumanMessage(acc, i) ==
    LET flushed == flushAgentTurn(acc) IN
    IF ChunksOf(i) = <<>> THEN flushed
    ELSE [flushed EXCEPT !.ui = Append(@, [id |-> i, author |-> "user", chunks |-> ChunksOf(i)])]

ReadMessage(acc, i) ==
    IF messages[i].author = "user" THEN HumanMessage(acc, i)
    ELSE IF ChunksOf(i) # <<>> THEN appendAgentChunks(acc, i) ELSE acc
streamMessagesToUi ==
    LET Read[i \in 0..Len(messages)] ==
          IF i = 0 THEN [ui |-> <<>>, turn |-> NoTurn] ELSE ReadMessage(Read[i - 1], i)
    IN  flushAgentTurn(Read[Len(messages)]).ui

----------------------------------------------------------------------------
(* buildRenderItems: an item is its type, its key and its chunks.           *)
isExplorationTool(chunk) == chunk.kind = "tool" /\ ~chunk.diff /\ chunk.tool \in {"read", "search"}
isSubagentTool(chunk) == chunk.kind = "tool" /\ chunk.tool = "task"
Item(type, key, chunks) == [type |-> type, key |-> key, chunks |-> chunks]

flushExplored(acc) ==
    IF acc.explored = <<>> THEN acc
    ELSE [acc EXCEPT !.items = Append(@, Item("explored-group", <<"explored", acc.explored[1].of>>, acc.explored)),
                     !.explored = <<>>]
flushSubagents(acc) ==
    IF acc.subagents = <<>> THEN acc
    ELSE [acc EXCEPT !.items = Append(@, Item("subagent-group", <<"subagents", acc.subagents[1].of>>, acc.subagents)),
                     !.subagents = <<>>]
flushGroups(acc) == flushSubagents(flushExplored(acc))

ItemType(chunk) ==
    CASE chunk.kind # "tool" -> IF chunk.kind = "reasoning" THEN "reasoning-item" ELSE "text-chunk"
      [] chunk.tool = "edit" \/ chunk.diff -> "edit-item"
      [] chunk.tool = "execute" -> "shell-item"
      [] chunk.tool \in {"slack", "linear"} -> "reply-item"
      [] OTHER -> "tool-item"

(* Texts and images are named by their place in the turn, tools by their id.*)
getChunkRenderKey(chunk, k) == IF chunk.kind = "tool" THEN <<"tool", chunk.of>> ELSE <<chunk.kind, k>>

(* Mutant: an exploration is put aside while subagents still are.           *)
MutPlace(acc, chunk, k) ==
    IF isSubagentTool(chunk) THEN [flushExplored(acc) EXCEPT !.subagents = Append(@, chunk)]
    ELSE IF isExplorationTool(chunk) THEN [acc EXCEPT !.explored = Append(@, chunk)]
    ELSE [flushGroups(acc) EXCEPT !.items = Append(@, Item(ItemType(chunk), getChunkRenderKey(chunk, k), <<chunk>>))]
Place(acc, chunk, k) ==
    IF isSubagentTool(chunk) THEN [flushExplored(acc) EXCEPT !.subagents = Append(@, chunk)]
    ELSE IF isExplorationTool(chunk) THEN [flushSubagents(acc) EXCEPT !.explored = Append(@, chunk)]
    ELSE [flushGroups(acc) EXCEPT !.items = Append(@, Item(ItemType(chunk), getChunkRenderKey(chunk, k), <<chunk>>))]

buildRenderItems(chunks) ==
    LET Placed[k \in 0..Len(chunks)] ==
          IF k = 0 THEN [items |-> <<>>, explored |-> <<>>, subagents |-> <<>>] ELSE Place(Placed[k - 1], chunks[k], k)
    IN  flushGroups(Placed[Len(chunks)]).items

(* A user's message shows its chunks as they are.                           *)
Items(m) == IF m.author = "agent" THEN buildRenderItems(m.chunks) ELSE <<Item("user", <<"user", m.id>>, m.chunks)>>

----------------------------------------------------------------------------
Init ==
    /\ messages = <<>> /\ subagent = NoSubagent /\ artifacts = {}
    /\ assembled = [c \in Calls |-> "none"] /\ results = [c \in Calls |-> "none"]

(* The stream (external).  The agent goes on when its calls have returned.  *)
Pending(c) == c <= Made /\ results[c] = "none"
Add(m) ==
    /\ Len(messages) < MaxMessages
    /\ m.author = "agent" => \A c \in Calls : ~Pending(c)
    /\ messages' = Append(messages, m)
    /\ UNCHANGED <<assembled, results, artifacts, subagent>>

Speaks ==
    /\ messages # <<>> /\ Last(messages).author = "agent" /\ ~Last(messages).text
    /\ messages' = [messages EXCEPT ![Len(messages)].text = TRUE]
    /\ UNCHANGED <<assembled, results, artifacts, subagent>>
CallsTool(name) ==
    /\ messages # <<>> /\ Last(messages).author = "agent" /\ Made < MaxCalls
    /\ messages' = [messages EXCEPT ![Len(messages)].calls = Append(@, [id |-> Made + 1, name |-> name])]
    /\ UNCHANGED <<assembled, results, artifacts, subagent>>

(* The calls of a message start together; of its subagents, which have one  *)
(* name, the last is kept.                                                  *)
Starts ==
    LET new == {c \in Calls : Pending(c) /\ assembled[c] = "none"}
        tasks == {c \in new : CallsOf(messages)[c].name = "task"}
    IN  /\ new # {}
        /\ assembled' = [c \in Calls |-> IF c \in new THEN "running" ELSE assembled[c]]
        /\ subagent' = IF tasks = {} THEN subagent ELSE [call |-> Max(tasks), status |-> "running"]
        /\ UNCHANGED <<messages, results, artifacts>>

(* A call returns, an assembled call ends and a subagent ends: three events *)
(* of three channels, in any order.  A failure is one in all of them.       *)
Returns(c, outcome) ==
    /\ Pending(c)
    /\ assembled[c] \in {"finished", "error"} => (assembled[c] = "error" <=> outcome = "error")
    /\ results' = [results EXCEPT ![c] = IF outcome = "error" THEN "error" ELSE "ok"]
    /\ artifacts' = IF outcome = "diff" THEN artifacts \cup {c} ELSE artifacts
    /\ UNCHANGED <<messages, assembled, subagent>>
CallEnds(c, outcome) ==
    /\ assembled[c] = "running"
    /\ results[c] # "none" => (results[c] = "error" <=> outcome = "error")
    /\ assembled' = [assembled EXCEPT ![c] = IF outcome = "error" THEN "error" ELSE "finished"]
    /\ UNCHANGED <<messages, results, artifacts, subagent>>
SubagentEnds(outcome) ==
    /\ subagent.status = "running"
    /\ results[subagent.call] # "none" => (results[subagent.call] = "error" <=> outcome = "error")
    /\ subagent' = [subagent EXCEPT !.status = IF outcome = "error" THEN "error" ELSE "complete"]
    /\ UNCHANGED <<messages, assembled, results, artifacts>>

(* The page is reloaded: only the messages are kept by the server.          *)
Reload ==
    /\ assembled' = [c \in Calls |-> "none"] /\ subagent' = NoSubagent
    /\ UNCHANGED <<messages, results, artifacts>>

Next ==
    \/ \E text \in BOOLEAN : Add(User(text))
    \/ \E reasoning \in BOOLEAN : Add(Agent(reasoning))
    \/ Speaks \/ Starts \/ Reload
    \/ \E name \in Tools : CallsTool(name)
    \/ \E outcome \in Outcomes : SubagentEnds(outcome) \/ \E c \in Calls : Returns(c, outcome) \/ CallEnds(c, outcome)

Spec == Init /\ [][Next]_vars

----------------------------------------------------------------------------
AllItems == LET ui == streamMessagesToUi IN FlattenSeq([k \in DOMAIN ui |-> Items(ui[k])])
ChunksIn(list) == FlattenSeq([k \in DOMAIN list |-> list[k].chunks])
WithoutText(chunks) == FlattenSeq([k \in DOMAIN chunks |-> If(chunks[k].kind # "text", chunks[k])])

(* The last text of the agent before the next message of the user.          *)
Final(i) ==
    \A j \in i+1..Len(messages) :
        messages[j].author = "agent" /\ messages[j].text => \E k \in i+1..j-1 : messages[k].author = "user"
Expected(i) == IF messages[i].author = "user" \/ Final(i) THEN ChunksOf(i) ELSE WithoutText(ChunksOf(i))

(* The types.                                                               *)
TypeOK ==
    /\ \A m \in ToSet(messages) : m.author \in {"user", "agent"} /\ (m.author = "user" => m.calls = <<>>)
    /\ assembled \in [Calls -> {"none", "running", "finished", "error"}]
    /\ results \in [Calls -> {"none", "ok", "error"}] /\ artifacts \subseteq Calls
    /\ subagent.status \in {"none", "running", "complete", "error"}

(* Everything is on the page once, in the order in which it happened: what  *)
(* users sent, the agent's reasoning, its tool calls but the internal ones, *)
(* and of its texts the last one of every turn.  Two buffers, the open turn *)
(* and the filter of the texts lose, repeat and swap nothing.               *)
ItemsComplete == ChunksIn(AllItems) = FlattenSeq([i \in DOMAIN messages |-> Expected(i)])

AllOver == (\A c \in 1..Made : ~Pending(c) /\ assembled[c] # "running") /\ subagent.status # "running"

(* The keys under which React keeps the items of a turn differ, neighbours  *)
(* of one kind are in one group, and nothing is shown as in progress, live  *)
(* or after a reload, once every call has returned and neither a call nor a *)
(* subagent whose start was seen has still to end.                          *)
ItemsTellTheState ==
    /\ \A m \in ToSet(streamMessagesToUi) :
         LET items == Items(m) IN
         /\ \A j, k \in DOMAIN items : j # k => items[j].key # items[k].key
         /\ \A k \in 2..Len(items) : items[k].type \in {"explored-group", "subagent-group"} => items[k - 1].type # items[k].type
    /\ AllOver => \A item \in ToSet(AllItems) : \A chunk \in ToSet(item.chunks) : chunk.status # "in_progress"

(* Why the types hold: what messages are.                                   *)
Shaped ==
    messages \in Seq([author : {"user", "agent"}, text : BOOLEAN, reasoning : BOOLEAN,
                       calls : Seq([id : Calls, name : Tools])])

(* Calls are numbered in the order of messages, and in each of them.        *)
Numbered ==
    \A i, j \in DOMAIN messages : \A k \in DOMAIN messages[i].calls, l \in DOMAIN messages[j].calls :
        /\ messages[i].calls[k].id \in 1..Made
        /\ i < j \/ (i = j /\ k < l) => messages[i].calls[k].id < messages[j].calls[l].id

(* A subagent that was discovered has a status.                             *)
Discovered == subagent.call \in Calls => subagent.status # "none"

Inv == TypeOK /\ Shaped /\ Numbered /\ Discovered
=============================================================================
