------------------------------- MODULE MCAccount -------------------------------
(* The components of an account whose requests are called q1 and q2: its     *)
(* sign-ins (Sessions, EmailCodes, McpGrants, Idempotency), and what its     *)
(* owner watches, writes, files, attaches, records and asks the assistant.   *)
(* They share no state: a behaviour is one of them, the others rest.         *)
EXTENDS Sessions, EmailCodes, McpGrants, Idempotency,
        WatchHistory, Documents, NoteFolders, TaskFiles, Events, Chats, TLC

VARIABLE checked   \* the component a behaviour is of

MCFolders == {<<"x">>, <<"x", "a">>, <<"_">>, <<"w">>, <<"w", "a">>}
Alike == Permutations(Tabs)

accessVars == <<sessionVars, emailCodesVars, mcpVars, idempotencyVars>>
contentVars == <<watchVars, documentVars, folderVars, fileVars, eventVars, chatVars>>

\* A component that is not the behaviour's subject starts in one state.
NoDocument == DocumentsStart /\ kind = "day"
NoEvent == EventsStart /\ variables = {[id |-> 1, order |-> 0]}

AccountInit ==
  /\ SessionsInit /\ EmailCodesInit /\ McpInit /\ IdempotencyInit
  /\ FoldersStart /\ FilesStart /\ ChatsStart
  /\ \/ checked = "watch" /\ WatchInit /\ NoDocument /\ NoEvent
     \/ checked = "write" /\ DocumentsStart /\ WatchStart(FALSE) /\ NoEvent
     \/ checked = "record" /\ EventsStart /\ WatchStart(FALSE) /\ NoDocument
     \/ /\ checked \in {"session", "code", "app", "change", "file", "attach", "chat"}
        /\ WatchStart(FALSE) /\ NoDocument /\ NoEvent

AccessNext ==
  \/ /\ checked = "session" /\ UNCHANGED <<emailCodesVars, mcpVars, idempotencyVars>>
     /\ SessionsNext
  \/ /\ checked = "code" /\ UNCHANGED <<sessionVars, mcpVars, idempotencyVars>>
     /\ EmailCodesNext
  \/ /\ checked = "app" /\ UNCHANGED <<sessionVars, emailCodesVars, idempotencyVars>>
     /\ McpNext
  \/ /\ checked = "change" /\ UNCHANGED <<sessionVars, emailCodesVars, mcpVars>>
     /\ IdempotencyNext

ContentNext ==
  \/ /\ checked = "watch" /\ UNCHANGED <<documentVars, folderVars, fileVars, eventVars, chatVars>>
     /\ WatchNext
  \/ /\ checked = "write" /\ UNCHANGED <<watchVars, folderVars, fileVars, eventVars, chatVars>>
     /\ DocumentsNext
  \/ /\ checked = "file" /\ UNCHANGED <<watchVars, documentVars, fileVars, eventVars, chatVars>>
     /\ FoldersNext
  \/ /\ checked = "attach" /\ UNCHANGED <<watchVars, documentVars, folderVars, eventVars, chatVars>>
     /\ FilesNext
  \/ /\ checked = "record" /\ UNCHANGED <<watchVars, documentVars, folderVars, fileVars, chatVars>>
     /\ EventsNext
  \/ /\ checked = "chat" /\ UNCHANGED <<watchVars, documentVars, folderVars, fileVars, eventVars>>
     /\ ChatsNext

AccountNext ==
  /\ UNCHANGED checked
  /\ \/ UNCHANGED contentVars /\ AccessNext
     \/ UNCHANGED accessVars /\ ContentNext

AccountSpec == AccountInit /\ [][AccountNext]_<<checked, accessVars, contentVars>>
=============================================================================
