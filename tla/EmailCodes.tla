----------------------------- MODULE EmailCodes -----------------------------
(* One-time sign-in codes for one email address: sendEmailCode and          *)
(* consumeEmailCode (auth/email.go).  A send counts the hour's codes and    *)
(* then inserts; a check takes the newest unconsumed row from its snapshot  *)
(* and, once it holds the row's lock, looks at the row as it is by then.    *)
EXTENDS Naturals, Sequences, FiniteSets

CONSTANTS
  Senders, Guessers,  \* requests of each kind that may overlap
  CodeLimit,          \* codes per address and hour
  CodeAttempts,       \* wrong guesses a code takes
  CodeTTL,            \* life of a code, in ticks
  SendWindow,         \* the hour, in ticks
  LastMinute,         \* bound: the clock
  MaxSends            \* bound: codes ever sent

ASSUME EmailCodesAssumption ==
  /\ IsFiniteSet(Senders) /\ MaxSends \in Nat
  /\ CodeLimit \in Nat \ {0} /\ CodeAttempts \in Nat \ {0}
  /\ CodeTTL \in Nat /\ SendWindow \in Nat /\ CodeTTL < SendWindow

VARIABLES
  minute,    \* the clock
  codes,     \* the email_codes rows, oldest first
  sending,   \* senders between the count and the insert
  guessing,  \* [Guessers -> the row a check has chosen, or 0]
  opened,    \* history: [code -> sign-ins it has opened]
  uncounted  \* history: sends that went on though their count failed

emailCodesVars == <<minute, codes, sending, guessing, opened, uncounted>>

-----------------------------------------------------------------------------

SentWithin(window) == {i \in DOMAIN codes : codes[i].at + window > minute}
Unconsumed == {i \in DOMAIN codes : ~codes[i].used}
Newest(rows) == CHOOSE i \in rows : \A j \in rows : j <= i

CountSends(s) ==
  /\ s \notin sending /\ Len(codes) + Cardinality(sending) < MaxSends
  /\ Cardinality(SentWithin(SendWindow)) < CodeLimit
  /\ sending' = sending \cup {s}
  /\ UNCHANGED <<minute, codes, guessing, opened, uncounted>>

\* The error of the COUNT is not looked at: recent stays 0 and the send goes on.
CountFails(s) ==
  /\ s \notin sending /\ Len(codes) + Cardinality(sending) < MaxSends
  /\ sending' = sending \cup {s}
  /\ uncounted' = uncounted + 1
  /\ UNCHANGED <<minute, codes, guessing, opened>>

\* The row is there whether or not the mail goes out.
InsertCode(s) ==
  /\ s \in sending
  /\ codes' = Append(codes, [at |-> minute, wrong |-> 0, used |-> FALSE])
  /\ sending' = sending \ {s}
  /\ UNCHANGED <<minute, guessing, opened, uncounted>>

ChooseCode(g) ==
  /\ guessing[g] = 0 /\ Unconsumed # {}
  /\ guessing' = [guessing EXCEPT ![g] = Newest(Unconsumed)]
  /\ UNCHANGED <<minute, codes, sending, opened, uncounted>>

OpensChosen(row) ==  \* mutant: the row as it was when it was chosen
  /\ row.at + CodeTTL >= minute /\ row.wrong < CodeAttempts

\* The row under its lock: unconsumed still, not expired, not worn out.
Opens(row) ==
  /\ ~row.used
  /\ row.at + CodeTTL >= minute /\ row.wrong < CodeAttempts

TryCode(g) ==
  LET i == guessing[g]
  IN /\ i # 0
     /\ \/ ~Opens(codes[i]) /\ UNCHANGED <<codes, opened>>
        \/ /\ Opens(codes[i])
           /\ codes' = [codes EXCEPT ![i].wrong = @ + 1]
           /\ UNCHANGED opened
        \/ /\ Opens(codes[i])
           /\ codes' = [codes EXCEPT ![i].used = TRUE]
           /\ opened' = [opened EXCEPT ![i] = @ + 1]
     /\ guessing' = [guessing EXCEPT ![g] = 0]
     /\ UNCHANGED <<minute, sending, uncounted>>

PassMinute ==
  /\ minute < LastMinute
  /\ minute' = minute + 1
  /\ UNCHANGED <<codes, sending, guessing, opened, uncounted>>

EmailCodesInit ==
  /\ minute = 1 /\ codes = <<>> /\ sending = {} /\ uncounted = 0
  /\ guessing = [g \in Guessers |-> 0]
  /\ opened = [i \in 1..MaxSends |-> 0]

EmailCodesNext ==
  \/ \E s \in Senders : CountSends(s) \/ CountFails(s) \/ InsertCode(s)
  \/ \E g \in Guessers : ChooseCode(g) \/ TryCode(g)
  \/ PassMinute

EmailCodesSpec == EmailCodesInit /\ [][EmailCodesNext]_emailCodesVars

-----------------------------------------------------------------------------

\* "3 codes per email per hour", "5 attempt cap per code", "single use",
\* whatever overlaps: sends that counted together can each add a code beyond
\* the limit, one fewer than the requests that overlap, and so can every send
\* whose count failed; a code opens one sign-in and takes no guess after its
\* last, however many checks chose it.
CodesBounded ==
  /\ Cardinality(SentWithin(SendWindow)) <= CodeLimit + Cardinality(Senders) - 1 + uncounted
  /\ \A i \in DOMAIN codes : /\ opened[i] <= 1
                             /\ codes[i].wrong <= CodeAttempts
                             /\ codes[i].used <=> opened[i] = 1
=============================================================================
