--------------------------- MODULE Conversations ---------------------------
(***************************************************************************)
(* One conversation of a user: what api/chat.py, api/side_call.py,          *)
(* ChatService, ConversationAutomationService and AttachmentService read   *)
(* and write of it.  Every request loads the row, does what may take long  *)
(* (a side call of a model, an upload) and then writes the columns that    *)
(* it changed; meta is one JSON column, written as a whole.  The answers   *)
(* themselves are in ChatStreams.                                          *)
(***************************************************************************)
EXTENDS Integers, Sequences, FiniteSets

CONSTANTS ChatRequests, \* requests under way at once
          Models,       \* model configurations
          Attachments,
          MaxModels,    \* chat_ensemble_max_models
          MaxMessages, MaxChatServed, MaxChatDeaths, NoRow

VARIABLES conv,     \* [active, model, title, locked, covers], or NoRow: the row; locked and
                    \* covers, the last message of the summary, are in meta
          usable,   \* the models that are active, with an active provider
          msgs,     \* number of the messages
          linked,   \* attachment -> the message it is linked to, or NoRow
          att,      \* attachment -> [file, row, expired]
          chatReq,  \* request -> [op, locked, covers, seen, models, atts], or NoRow: what it
                    \* read, and the models and attachments it is about
          kept,     \* ghost: the title is the user's and nothing undid that legitimately
          chatServed, chatDeaths

convVars == <<conv, usable, msgs, linked, att, chatReq, kept, chatServed, chatDeaths>>

Nothing == [file |-> FALSE, row |-> FALSE, expired |-> FALSE]

ConvInit ==
  /\ conv = NoRow /\ usable = Models /\ msgs = 0 /\ kept = FALSE
  /\ linked = [a \in Attachments |-> NoRow] /\ att = [a \in Attachments |-> Nothing]
  /\ chatReq = [r \in ChatRequests |-> NoRow] /\ chatServed = 0 /\ chatDeaths = 0

-----------------------------------------------------------------------------
(* Beginning a conversation. *)

\* _load_active_model_configuration
Usable(m) == m \in usable

NewConversation(m, title) ==
  [active |-> TRUE, model |-> m, title |-> title, locked |-> FALSE, covers |-> 0]

CreateConversation(m) ==
  /\ conv = NoRow /\ Usable(m)
  /\ conv' = NewConversation(m, "auto")
  /\ UNCHANGED <<usable, msgs, linked, att, chatReq, kept, chatServed, chatDeaths>>

\* The result of a run of an experience is its first message.
FromExperience(m) ==
  /\ conv = NoRow /\ Usable(m)
  /\ conv' = NewConversation(m, "experience") /\ msgs' = 1
  /\ UNCHANGED <<usable, linked, att, chatReq, kept, chatServed, chatDeaths>>

\* An admin activates or deactivates a configuration.
SwitchUsable(m) ==
  /\ chatServed < MaxChatServed /\ chatServed' = chatServed + 1
  /\ usable' = IF m \in usable THEN usable \ {m} ELSE usable \cup {m}
  /\ UNCHANGED <<conv, msgs, linked, att, chatReq, kept, chatDeaths>>

-----------------------------------------------------------------------------
(* Requests: Load reads the row, the other half of an operation writes. *)

\* get_conversation_by_id: a conversation that was deleted is not found.
Found == conv # NoRow /\ conv.active

Load(r, op, models, atts) ==
  /\ Found /\ chatReq[r] = NoRow /\ chatServed < MaxChatServed /\ chatServed' = chatServed + 1
  /\ chatReq' = [chatReq EXCEPT ![r] = [op |-> op, locked |-> conv.locked, covers |-> conv.covers,
                                        seen |-> msgs, models |-> models, atts |-> atts]]
  /\ UNCHANGED <<conv, usable, msgs, linked, att, kept, chatDeaths>>

Does(r, op) == chatReq[r] # NoRow /\ chatReq[r].op = op
Ends(r) == chatReq' = [chatReq EXCEPT ![r] = NoRow]
Alone(r) == \A other \in ChatRequests \ {r} : chatReq[other] = NoRow
Write(fields) == conv' = [x \in DOMAIN conv |-> IF x \in DOMAIN fields THEN fields[x] ELSE conv[x]]

\* update_conversation with a title, which locks it: meta is what was loaded, and the lock.
SetTitle(r) ==
  /\ Does(r, "title") /\ Ends(r)
  /\ Write([title |-> "own", locked |-> TRUE, covers |-> chatReq[r].covers])
  /\ kept' = Alone(r)
  /\ UNCHANGED <<usable, msgs, linked, att, chatServed, chatDeaths>>

\* unlock_auto_rename
Unlock(r) ==
  /\ Does(r, "unlock") /\ Ends(r)
  /\ IF chatReq[r].locked THEN Write([locked |-> FALSE, covers |-> chatReq[r].covers]) ELSE UNCHANGED conv
  /\ kept' = FALSE
  /\ UNCHANGED <<usable, msgs, linked, att, chatServed, chatDeaths>>

DeleteConversation(r) ==
  /\ Does(r, "delete") /\ Ends(r)
  /\ Write([active |-> FALSE])
  /\ UNCHANGED <<usable, msgs, linked, att, kept, chatServed, chatDeaths>>

\* switch_conversation_model
SwitchModel(r) ==
  /\ Does(r, "switch") /\ Ends(r)
  /\ \/ \E m \in chatReq[r].models : Usable(m) /\ Write([model |-> m])
     \/ (\A m \in chatReq[r].models : ~Usable(m)) /\ UNCHANGED conv
  /\ UNCHANGED <<usable, msgs, linked, att, kept, chatServed, chatDeaths>>

RenameAnyway(r, new) ==  \* Slip
  /\ Does(r, "rename") /\ Ends(r)
  /\ Write([title |-> "auto", locked |-> chatReq[r].locked, covers |-> chatReq[r].covers])
  /\ UNCHANGED <<usable, msgs, linked, att, kept, chatServed, chatDeaths>>

\* auto_rename: a locked title is left alone; the model may propose the title that is
\* there, and then only meta is written.
AutoRename(r, new) ==
  /\ Does(r, "rename") /\ Ends(r)
  /\ IF chatReq[r].locked THEN UNCHANGED conv
     ELSE IF new THEN Write([title |-> "auto", locked |-> chatReq[r].locked, covers |-> chatReq[r].covers])
     ELSE Write([locked |-> chatReq[r].locked, covers |-> chatReq[r].covers])
  /\ UNCHANGED <<usable, msgs, linked, att, kept, chatServed, chatDeaths>>

\* generate_summary: of the messages that are there, unless the last one is covered.
Summarize(r) ==
  /\ Does(r, "summary") /\ Ends(r)
  /\ IF chatReq[r].seen \in {0, chatReq[r].covers} THEN UNCHANGED conv
     ELSE Write([locked |-> chatReq[r].locked, covers |-> chatReq[r].seen])
  /\ UNCHANGED <<usable, msgs, linked, att, kept, chatServed, chatDeaths>>

\* A side call that fails or times out.
SideCallFails(r) ==
  /\ Does(r, "rename") \/ Does(r, "summary")
  /\ Ends(r)
  /\ UNCHANGED <<conv, usable, msgs, linked, att, kept, chatServed, chatDeaths>>

\* _link_attachments_to_message: a row that the cleanup has deleted meanwhile is not
\* linked, and one of another conversation refuses the message.
Links(atts, n) ==
  linked' = [a \in Attachments |-> IF a \in atts /\ att[a].row THEN n ELSE linked[a]]

\* add_message
AddMessage(r) ==
  /\ Does(r, "message") /\ msgs < MaxMessages /\ Ends(r)
  /\ msgs' = msgs + 1 /\ Links(chatReq[r].atts, msgs + 1)
  /\ UNCHANGED <<conv, usable, att, kept, chatServed, chatDeaths>>

\* _resolve_ensemble_configurations: the model of the conversation comes last, once.
Ensemble(r) == chatReq[r].models \cup {conv.model}

\* send_message: the message of the user is committed before the models are known to
\* be usable; a turn that is refused then leaves it behind.
PrepareTurn(r) ==
  /\ Does(r, "send") /\ msgs < MaxMessages
  /\ msgs' = msgs + 1 /\ Links(chatReq[r].atts, msgs + 1)
  /\ chatReq' = [chatReq EXCEPT ![r].op = "turn", ![r].seen = msgs + 1]
  /\ UNCHANGED <<conv, usable, att, kept, chatServed, chatDeaths>>

\* _build_model_execution_inputs, and what the stream adds for each of the models.
AnswerTurn(r) ==
  LET answers == IF Ensemble(r) \subseteq usable /\ Cardinality(Ensemble(r)) <= MaxModels
                 THEN Cardinality(Ensemble(r)) ELSE 0
  IN /\ Does(r, "turn") /\ Ends(r)
     /\ msgs + answers <= MaxMessages /\ msgs' = msgs + answers
     /\ UNCHANGED <<conv, usable, linked, att, kept, chatServed, chatDeaths>>

-----------------------------------------------------------------------------
(* Attachments: a file, then its row; the cleanup removes the file, then the row. *)

\* save_upload, after the checks of type and size
SaveFile(r) ==
  /\ Does(r, "upload")
  /\ \E a \in chatReq[r].atts : att[a] = Nothing /\ att' = [att EXCEPT ![a].file = TRUE]
  /\ chatReq' = [chatReq EXCEPT ![r].op = "extract"]
  /\ UNCHANGED <<conv, usable, msgs, linked, kept, chatServed, chatDeaths>>

\* _fast_extract_text returns something whatever fails; then the row is committed.
SaveRow(r) ==
  /\ Does(r, "extract") /\ Ends(r)
  /\ \E a \in chatReq[r].atts : att' = [att EXCEPT ![a].row = TRUE]
  /\ UNCHANGED <<conv, usable, msgs, linked, kept, chatServed, chatDeaths>>

\* chat_attachment_ttl_days are over.
Expire(a) ==
  /\ att[a].row /\ ~att[a].expired
  /\ att' = [att EXCEPT ![a].expired = TRUE]
  /\ UNCHANGED <<conv, usable, msgs, linked, chatReq, kept, chatServed, chatDeaths>>

Expired == {a \in Attachments : att[a].row /\ att[a].expired}

\* cleanup_expired_attachments: files go one by one, rows with the commit at the end.
BeginCleanup(r) ==
  /\ chatReq[r] = NoRow /\ Expired # {} /\ chatServed < MaxChatServed /\ chatServed' = chatServed + 1
  /\ \A other \in ChatRequests : ~Does(other, "cleanup")  \* FOR UPDATE SKIP LOCKED
  /\ chatReq' = [chatReq EXCEPT ![r] = [op |-> "cleanup", locked |-> FALSE, covers |-> 0, seen |-> 0,
                                        models |-> {}, atts |-> Expired]]
  /\ UNCHANGED <<conv, usable, msgs, linked, att, kept, chatDeaths>>

RemoveFile(r, a) ==
  /\ Does(r, "cleanup") /\ a \in chatReq[r].atts /\ att[a].file
  /\ att' = [att EXCEPT ![a].file = FALSE]
  /\ UNCHANGED <<conv, usable, msgs, linked, chatReq, kept, chatServed, chatDeaths>>

DeleteRows(r) ==
  /\ Does(r, "cleanup") /\ \A a \in chatReq[r].atts : ~att[a].file
  /\ att' = [a \in Attachments |-> IF a \in chatReq[r].atts THEN [att[a] EXCEPT !.row = FALSE] ELSE att[a]]
  /\ linked' = [a \in Attachments |-> IF a \in chatReq[r].atts THEN NoRow ELSE linked[a]]
  /\ Ends(r)
  /\ UNCHANGED <<conv, usable, msgs, kept, chatServed, chatDeaths>>

\* The process of a request dies, or its transaction fails, before it writes.
Dies(r) ==
  /\ chatReq[r] # NoRow /\ chatDeaths < MaxChatDeaths /\ chatDeaths' = chatDeaths + 1
  /\ Ends(r)
  /\ UNCHANGED <<conv, usable, msgs, linked, att, kept, chatServed>>

\* view_attachment
Viewable(a) == att[a].row /\ ~att[a].expired

\* get_conversation_messages of the API: an expired attachment is shown as such.
ShownWith(n) == {[a |-> a, expired |-> att[a].expired] : a \in {b \in Attachments : linked[b] = n}}

ConvNext ==
  \/ \E m \in Models : CreateConversation(m) \/ FromExperience(m) \/ SwitchUsable(m)
  \/ \E r \in ChatRequests :
       \/ \E op \in {"title", "unlock", "delete", "rename", "summary"} : Load(r, op, {}, {})
       \/ \E m \in Models : Load(r, "switch", {m}, {})
       \/ \E a \in Attachments : \/ Load(r, "upload", {}, {a}) \/ Load(r, "message", {}, {a})
                                 \/ RemoveFile(r, a)
       \/ \E models \in SUBSET Models : Load(r, "send", models, Attachments)
       \/ SetTitle(r) \/ Unlock(r) \/ DeleteConversation(r) \/ SwitchModel(r) \/ Summarize(r)
       \/ \E new \in BOOLEAN : AutoRename(r, new)
       \/ SideCallFails(r) \/ AddMessage(r) \/ PrepareTurn(r) \/ AnswerTurn(r)
       \/ SaveFile(r) \/ SaveRow(r) \/ BeginCleanup(r) \/ DeleteRows(r) \/ Dies(r)
  \/ \E a \in Attachments : Expire(a)

ConvSpec == ConvInit /\ [][ConvNext]_convVars
-----------------------------------------------------------------------------
\* A title that the user gave stands until the user unlocks it (title_locked: "whether
\* manual rename prevents auto-rename"), save that a request under way when it was
\* given may write the meta it had loaded before.
TitleStands == kept => conv.title = "own" /\ conv.locked

\* What can be viewed, and what a message shows as not expired, has its file, however
\* the cleanup, uploads and messages interleave and whoever dies.
ViewableHasFile ==
  /\ \A a \in Attachments : Viewable(a) => att[a].file
  /\ \A n \in 1..msgs : \A shown \in ShownWith(n) : att[shown.a].row /\ (shown.expired \/ att[shown.a].file)

\* What a user has given a conversation stays: its title and its files.
GivenIsKept == TitleStands /\ ViewableHasFile
=============================================================================
