--------------------------------- MODULE Chats ---------------------------------
(***************************************************************************)
(* The assistant's conversations: the rounds of a chat turn, the tools it  *)
(* runs, the history a session keeps, and the hourly limit                 *)
(* (ai/service.go, ai/sessions.go, api/ai.go, api/ailimit.go).             *)
(*                                                                         *)
(* An entry of a history is a turn: who speaks, in which exchange, whether *)
(* it has text, and which round's tools it calls or answers.  A session's  *)
(* row is read when a chat starts and rewritten whole when it is over.     *)
(***************************************************************************)
EXTENDS Integers, FiniteSets, Sequences, SequencesExt

CONSTANTS
  Chatters,     \* requests
  MaxChats,     \* bound: exchanges of one behaviour
  MaxSessions,  \* bound: sessions made in one behaviour
  ToolRounds,   \* maxToolRounds (10; 6 for the palette)
  Window,       \* 2 * historyWindow: entries a session keeps (40)
  HourlyCap     \* aiMaxMessages (240)

ASSUME ChatLimits == /\ ToolRounds \in Nat \ {0} /\ Window \in Nat \ {0}
                     /\ HourlyCap \in Nat \ {0}

Exchanges == 1..MaxChats
SessionIds == 1..MaxSessions
Palette == 0   \* the session of a chat that has none
NoChat == [step |-> "silent"]

VARIABLES
  sessions,    \* [SessionIds -> [status, messages]]: ai_sessions
  chat,        \* [Chatters -> what an open chat knows]
  exchanges,   \* exchanges begun
  counted,     \* entries of the limiter that are less than an hour old
  toolRuns,    \* [Exchanges -> runs of a tool]
  saved,       \* [SessionIds -> exchanges written to it, in order]
  unsaid,      \* exchanges that were over without an answer
  reasons,     \* [SessionIds -> subset of {"overlap", "window", "unsaid"}]
  crowded      \* history: chats were under way together

chatVars == <<sessions, chat, exchanges, counted, toolRuns, saved, unsaid, reasons, crowded>>

Turn(role, of, says, calls, answers) ==
  [role |-> role, of |-> of, says |-> says, calls |-> calls, answers |-> answers]
AskTurn(e) == Turn("user", e, TRUE, 0, 0)
ModelTurn(e, says, calls) == Turn("model", e, says, calls, 0)
ResultsTurn(e, calls) == Turn("user", e, FALSE, 0, calls)

(*************************** SanitizeHistory *******************************)
\* functionPairMatches
PairMatches(call, response) ==
  /\ call.calls # 0
  /\ response.answers = call.calls /\ response.of = call.of

\* A response stays behind its call, a call in front of its response.
ValidTurn(h, i) ==
  CASE h[i].answers # 0 -> IF i > 1 /\ PairMatches(h[i - 1], h[i]) THEN <<h[i]>> ELSE <<>>
    [] h[i].calls # 0 /\ ~(i < Len(h) /\ PairMatches(h[i], h[i + 1])) ->
         IF h[i].says THEN <<[h[i] EXCEPT !.calls = 0]>> ELSE <<>>
    [] OTHER -> <<h[i]>>
Validated(h) == FlattenSeq([i \in 1..Len(h) |-> ValidTurn(h, i)])

Alternates(h) ==
  \A i \in 1..Len(h) : h[i].role = IF i % 2 = 1 THEN "user" ELSE "model"

\* alternatingHistorySuffix: up to the last model turn, from the first
\* question after which the turns alternate
AlternatingSuffix(h) ==
  LET ends == {i \in 1..Len(h) : h[i].role = "model"}
      last == IF ends = {} THEN 0 ELSE CHOOSE i \in ends : \A j \in ends : j <= i
      starts == {i \in 1..last : /\ h[i].answers = 0 /\ (last - i) % 2 = 1
                                 /\ Alternates(SubSeq(h, i, last))}
  IN  IF starts = {} THEN <<>>
      ELSE SubSeq(h, CHOOSE i \in starts : \A j \in starts : i <= j, last)

SanitizeHistory(h) == AlternatingSuffix(Validated(h))
TrimHistory(h) ==
  SanitizeHistory(IF Len(h) > Window THEN SubSeq(h, Len(h) - Window + 1, Len(h)) ELSE h)

(*************************** a chat turn ***********************************)
InStep(c, step) == chat[c].step = step
Proceeds(c, job) == chat' = [chat EXCEPT ![c] = job]
Ends(c) == Proceeds(c, NoChat)

\* POST chat: within the cap of requests; the cap of tokens beside it only
\* refuses more.  A session that cannot be read is an empty one.
StartChat(c, s) ==
  LET row == IF s = Palette THEN <<>>
             ELSE IF sessions[s].status = "live" THEN SanitizeHistory(sessions[s].messages)
             ELSE <<>>
  IN  /\ InStep(c, "silent") /\ exchanges < MaxChats /\ counted < HourlyCap
      /\ s # Palette => sessions[s].status # "unmade"
      /\ exchanges' = exchanges + 1
      /\ Proceeds(c, [step |-> "ask", session |-> s, of |-> exchanges + 1, round |-> 1,
                     said |-> FALSE, waiting |-> 0,
                     contents |-> Append(TrimHistory(row), AskTurn(exchanges + 1)),
                     seen |-> IF s = Palette THEN <<>> ELSE saved[s]])
      /\ crowded' = (crowded \/ \E d \in Chatters : chat[d].step \notin {"silent", "held"})
      /\ UNCHANGED <<sessions, counted, toolRuns, saved, unsaid, reasons>>

\* Calls that are run, were each copy the stream brings run
RunEveryCopy(chunks) == Len(chunks)

\* functionCallKey: copies of one call in a round are one call
CallsOf(chunks) == Cardinality(ToSet(chunks))

\* One round of run: the stream fails, or brings text and calls; with no
\* call the exchange is over.
StreamRound(c) ==
  LET job == chat[c]
  IN  /\ InStep(c, "ask") /\ job.round <= ToolRounds
      /\ \/ Ends(c) /\ counted' = counted + 1
         \/ /\ \E says \in BOOLEAN, chunks \in {<<>>, <<job.round>>, <<job.round, job.round>>} :
                 LET calls == IF chunks = <<>> THEN 0 ELSE job.round
                 IN  Proceeds(c, [job EXCEPT
                       !.said = @ \/ says,
                       !.contents = IF says \/ calls # 0
                                    THEN Append(@, ModelTurn(job.of, says, calls)) ELSE @,
                       !.step = IF calls = 0 THEN "done" ELSE "tools",
                       !.waiting = CallsOf(chunks)])
            /\ UNCHANGED counted
      /\ UNCHANGED <<sessions, exchanges, toolRuns, saved, unsaid, reasons, crowded>>

\* The tools of a round run, each with its effect; their results are a turn.
RunTools(c) ==
  LET job == chat[c]
  IN  /\ InStep(c, "tools")
      /\ toolRuns' = [toolRuns EXCEPT ![job.of] = @ + job.waiting]
      /\ Proceeds(c, [job EXCEPT !.step = "ask", !.round = @ + 1, !.waiting = 0,
                                !.contents = Append(@, ResultsTurn(job.of, job.round))])
      /\ UNCHANGED <<sessions, exchanges, counted, saved, unsaid, reasons, crowded>>

\* Out of rounds: one call without tools.  It fails, or the exchange is over;
\* without a word in all its rounds it has failed too.
WrapUp(c) ==
  LET job == chat[c]
  IN  /\ InStep(c, "ask") /\ job.round > ToolRounds
      /\ \/ Ends(c) /\ counted' = counted + 1
         \/ /\ \E says \in BOOLEAN :
                 /\ job.said \/ says
                 /\ Proceeds(c, [job EXCEPT
                      !.step = "done", !.said = TRUE,
                      !.contents = IF says THEN Append(@, ModelTurn(job.of, TRUE, 0)) ELSE @])
            /\ UNCHANGED counted
      /\ UNCHANGED <<sessions, exchanges, toolRuns, saved, unsaid, reasons, crowded>>

(*************************** sessions **************************************)
AskedIn(h) == {h[i].of : i \in {j \in 1..Len(h) : h[j].answers = 0 /\ h[j].role = "user"}}
NoAnswer(h) == h[Len(h)].role = "user"

\* Writes, were only the exchange itself written
WritesOwn(job, s) ==
  /\ sessions' = [sessions EXCEPT ![s].messages =
       TrimHistory(SelectSeq(job.contents, LAMBDA turn : turn.of = job.of))]
  /\ saved' = [saved EXCEPT ![s] = Append(@, job.of)]
  /\ UNCHANGED reasons

\* A history written to a session that another chat wrote since it was read,
\* or that is longer than the window, loses exchanges.
Writes(job, s) ==
  /\ sessions' = [sessions EXCEPT ![s].messages = TrimHistory(job.contents)]
  /\ saved' = [saved EXCEPT ![s] = Append(@, job.of)]
  /\ reasons' = [reasons EXCEPT ![s] = @
       \cup (IF saved[s] # job.seen THEN {"overlap"} ELSE {})
       \cup (IF Len(job.contents) > Window THEN {"window"} ELSE {})
       \cup (IF NoAnswer(job.contents) THEN {"unsaid"} ELSE {})]

\* The end of POST chat: the use is counted and the session's row rewritten;
\* a session deleted meanwhile has no row.  A palette chat stays with the
\* client.
SaveChat(c) ==
  LET job == chat[c]
  IN  /\ InStep(c, "done") /\ counted' = counted + 1
      /\ IF job.session = Palette
         THEN /\ Proceeds(c, [job EXCEPT !.step = "held"])
              /\ UNCHANGED <<sessions, saved, reasons>>
         ELSE /\ Ends(c)
              /\ IF sessions[job.session].status = "live" THEN Writes(job, job.session)
                 ELSE UNCHANGED <<sessions, saved, reasons>>
      /\ unsaid' = IF NoAnswer(job.contents) THEN unsaid \cup {job.of} ELSE unsaid
      /\ UNCHANGED <<exchanges, toolRuns, crowded>>

\* sessions/adopt: a palette chat becomes a session's history
Adopt(c, s) ==
  /\ InStep(c, "held") /\ sessions[s].status = "unmade" /\ Ends(c)
  /\ sessions' = [sessions EXCEPT ![s] = [status |-> "live", messages |-> TrimHistory(chat[c].contents)]]
  /\ saved' = [saved EXCEPT ![s] = <<chat[c].of>>]
  /\ reasons' = [reasons EXCEPT ![s] =
       (IF Len(chat[c].contents) > Window THEN {"window"} ELSE {})
       \cup (IF NoAnswer(chat[c].contents) THEN {"unsaid"} ELSE {})]
  /\ UNCHANGED <<exchanges, counted, toolRuns, unsaid, crowded>>

CreateSession(s) ==
  /\ sessions[s].status = "unmade"
  /\ sessions' = [sessions EXCEPT ![s].status = "live"]
  /\ UNCHANGED <<chat, exchanges, counted, toolRuns, saved, unsaid, reasons, crowded>>

DeleteSession(s) ==
  /\ sessions[s].status = "live"
  /\ sessions' = [sessions EXCEPT ![s] = [status |-> "gone", messages |-> <<>>]]
  /\ saved' = [saved EXCEPT ![s] = <<>>]
  /\ UNCHANGED <<chat, exchanges, counted, toolRuns, unsaid, reasons, crowded>>

\* The client leaves, the time is up or the process stops: nothing is
\* counted or saved, and what the tools did stays.
Abandon(c) ==
  /\ ~InStep(c, "silent") /\ Ends(c)
  /\ UNCHANGED <<sessions, exchanges, counted, toolRuns, saved, unsaid, reasons, crowded>>

\* prune: the oldest use is an hour old
UseAges ==
  /\ counted > 0 /\ counted' = counted - 1
  /\ UNCHANGED <<sessions, chat, exchanges, toolRuns, saved, unsaid, reasons, crowded>>

ChatsStart ==
  /\ sessions = [s \in SessionIds |-> [status |-> "unmade", messages |-> <<>>]]
  /\ chat = [c \in Chatters |-> NoChat]
  /\ exchanges = 0 /\ counted = 0 /\ unsaid = {} /\ crowded = FALSE
  /\ toolRuns = [e \in Exchanges |-> 0]
  /\ saved = [s \in SessionIds |-> <<>>]
  /\ reasons = [s \in SessionIds |-> {}]

ChatsNext ==
  \/ \E c \in Chatters :
       \/ \E s \in SessionIds \cup {Palette} : StartChat(c, s)
       \/ StreamRound(c) \/ RunTools(c) \/ WrapUp(c) \/ SaveChat(c)
       \/ \E s \in SessionIds : Adopt(c, s)
       \/ Abandon(c)
  \/ \E s \in SessionIds : CreateSession(s) \/ DeleteSession(s)
  \/ UseAges

ChatsSpec == ChatsStart /\ [][ChatsNext]_chatVars

(*************************** properties ************************************)
\* What the model is handed in a round: turns that alternate, each call
\* answered by the turn behind it, each response behind its call.
Paired(h) ==
  /\ Alternates(h)
  /\ \A i \in 1..Len(h) :
       /\ h[i].answers # 0 => i > 1 /\ PairMatches(h[i - 1], h[i])
       /\ h[i].calls # 0 => i < Len(h) /\ PairMatches(h[i], h[i + 1])

Handed == {chat[c].contents : c \in {d \in Chatters : InStep(d, "ask")}}

\* "we never hand Gemini a slice that starts with an orphan function-response
\* or ends with a dangling function-call" (ai/sessions.go).
NeverHandsDangling == \A h \in Handed : Paired(h)

\* What the model is handed and what a session keeps.
Histories == Handed \cup {sessions[s].messages : s \in SessionIds}

\* But for the calls of an exchange that was over without an answer, every
\* history is well paired, whatever the window cut off.
AllPaired ==
  \A h \in Histories :
    Paired([i \in 1..Len(h) |-> IF h[i].of \in unsaid THEN [h[i] EXCEPT !.calls = 0, !.answers = 0]
                                ELSE h[i]])

\* An exchange that a history still asks about is there whole: it tells each
\* run of a tool exactly once, unless it was over without an answer.
TellsEveryRun ==
  \A h \in Histories :
    \A e \in AskedIn(h) \ unsaid :
      Cardinality({i \in 1..Len(h) : h[i].of = e /\ h[i].answers # 0}) = toolRuns[e]

\* A session keeps every exchange written to it, unless chats on it overlap,
\* it outgrows the window, or an exchange is over without an answer.
ExchangesKept ==
  \A s \in SessionIds :
    (sessions[s].status = "live" /\ reasons[s] = {}) => AskedIn(sessions[s].messages) = ToSet(saved[s])

\* The hourly limit is passed only by chats that were under way together: each
\* was let in before the other was counted.
CapPassedTogether == counted > HourlyCap => crowded

\* Whole exchanges are kept, and the limit holds, but for chats that overlap.
ChatsHold == ExchangesKept /\ CapPassedTogether

\* Whatever the window cuts, a history given or kept is well paired and tells whole exchanges.
HistoryTellsAll == AllPaired /\ TellsEveryRun

===============================================================================
