------------------------------- MODULE Thinking -------------------------------
(***************************************************************************)
(* One thinking project: its cards with their thread of comments and       *)
(* changes of state, and the brief the assistant writes about it           *)
(* (api/thinking.go, thinking/events.go, ai/tools_thinking.go).            *)
(*                                                                         *)
(* NOW() is the moment a transaction begins, so a change that began before *)
(* the brief was stamped is older than the brief whenever it commits.      *)
(* What the assistant writes on a single card does not count as the        *)
(* project's context; two such runs on one card that read the same are     *)
(* one here.                                                               *)
(***************************************************************************)
EXTENDS Integers, FiniteSets, Sequences

CONSTANTS
  Thinkers,      \* requests of the app and the assistant
  MaxThoughts,   \* bound: requests
  MaxCards       \* bound: cards

CardIds == 1..MaxCards
Actionable == {"todo", "question"}     \* a contradiction is closed as a question is
CardKinds == Actionable \cup {"note"}  \* the nine other kinds

VARIABLES
  cards,      \* [CardIds -> [status, kind, thread]]; status "none" before, "gone" after
  project,    \* [here, written, stale, tells, alone]: see below
  thinking,   \* [Thinkers -> what an open request knows]
  thoughts,   \* requests left
  insights,   \* [CardIds -> [by, links]]: who wrote a card's enrichment, and its links
  musings     \* the enrichments under way: [card, others, spreads]

\* project.written: synthesized_at is set; stale: context_updated_at is later;
\* tells: nothing has changed since the cards of the brief were read; alone:
\* no change was under way at any time between that reading and its stamp.
insightVars == <<insights, musings>>
thinkingVars == <<cards, project, thinking, thoughts, insightVars>>

NoJob == [step |-> "quiet"]
NoInsight == [by |-> "none", links |-> {}]
Unread == 1..(MaxCards + 1)   \* no set of cards
CardHere(c) == cards[c].status \in {"open", "closed"}
StepOf(w) == thinking[w].step
Changing(w) == StepOf(w) \in {"begun", "locked", "touch"}

----------------------------------------------------------------------------
(* What a change does to the briefs that are being written. *)

Interferes(jobs) ==
  [w \in Thinkers |-> IF jobs[w].step = "synthesis" THEN [jobs[w] EXCEPT !.alone = FALSE] ELSE jobs[w]]
Outdates(jobs) ==
  [w \in Thinkers |-> IF jobs[w].step = "synthesis" THEN [jobs[w] EXCEPT !.tells = FALSE] ELSE jobs[w]]

Thinks(w, job) ==
  /\ thinking[w] = NoJob /\ thoughts > 0 /\ project.here
  /\ thoughts' = thoughts - 1
  /\ thinking' = Interferes([thinking EXCEPT ![w] = job])
ThoughtEnds(w) == thinking' = [thinking EXCEPT ![w] = NoJob] /\ UNCHANGED thoughts

\* The transaction commits: the context is as old as its beginning.
Commits(w) ==
  /\ project' = [project EXCEPT !.stale = ~thinking[w].early, !.tells = FALSE]
  /\ thinking' = Outdates([thinking EXCEPT ![w] = NoJob])
  /\ UNCHANGED thoughts
WritesCard(w, c, card) == cards' = [cards EXCEPT ![c] = card] /\ Commits(w)

----------------------------------------------------------------------------
\* What a transaction on one card may be asked to do.
AskedOf(c) ==
  [op : {"state"}, closed : BOOLEAN, said : BOOLEAN]
  \cup [op : {"card"}, kind : CardKinds]
  \cup [op : {"delete", "comment", "enrichment"}]
  \cup [op : {"edit comment", "delete comment"}, entry : DOMAIN cards[c].thread]

BeginChange(w) ==
  \E c \in CardIds : \E ask \in AskedOf(c) :
    /\ CardHere(c)
    /\ Thinks(w, [step |-> "begun", card |-> c, ask |-> ask, early |-> FALSE])
    /\ UNCHANGED <<cards, project>>

WithLock(job) ==
  IF CardHere(job.card)
  THEN [step |-> "locked", card |-> job.card, ask |-> job.ask, early |-> job.early, seen |-> cards[job.card]]
  ELSE NoJob

LockNothing(w) ==  \* mutant: the row is read without FOR UPDATE
  /\ StepOf(w) = "begun"
  /\ thinking' = [thinking EXCEPT ![w] = WithLock(@)]
  /\ UNCHANGED <<cards, project, thoughts>>

\* SELECT ... FOR UPDATE, or the first statement that writes the card's row;
\* the row is as the last commit left it.
LockCard(w) ==
  /\ StepOf(w) = "begun"
  /\ \A v \in Thinkers : StepOf(v) = "locked" => thinking[v].card # thinking[w].card
  /\ thinking' = [thinking EXCEPT ![w] = WithLock(@)]
  /\ UNCHANGED <<cards, project, thoughts>>

Does(w, op) == StepOf(w) = "locked" /\ thinking[w].ask.op = op

\* The transaction ends without a change: refused, or nothing to do.
Refuses(w) == ThoughtEnds(w) /\ UNCHANGED <<cards, project>>

\* SetClosed: the state a card has already is no change.
SetClosed(w) ==
  LET c == thinking[w].card
      card == thinking[w].seen
      ask == thinking[w].ask
      entry == IF ~ask.closed THEN "reopened" ELSE IF ask.said THEN "closed, said why" ELSE "closed"
  IN /\ Does(w, "state")
     /\ IF \/ card.kind \notin Actionable
           \/ (card.status = "closed") = ask.closed
           \/ ask.closed /\ card.kind = "question" /\ ~ask.said
          THEN Refuses(w)
          ELSE WritesCard(w, c, [cards[c] EXCEPT !.status = IF ask.closed THEN "closed" ELSE "open",
                                             !.thread = Append(@, entry)])

UpdateClosedCard(w) ==  \* mutant: the kind of a closed card may change
  /\ Does(w, "card")
  /\ WritesCard(w, thinking[w].card, [cards[thinking[w].card] EXCEPT !.kind = thinking[w].ask.kind])

\* updateThinkingCard: a closed card keeps its kind; its text may change.
UpdateCard(w) ==
  LET card == thinking[w].seen
      kind == thinking[w].ask.kind
  IN /\ Does(w, "card")
     /\ IF card.status = "closed" /\ kind # card.kind THEN Refuses(w)
        ELSE WritesCard(w, thinking[w].card, [cards[thinking[w].card] EXCEPT !.kind = kind])

\* The thread goes with the card.
DeleteCard(w) ==
  /\ Does(w, "delete")
  /\ WritesCard(w, thinking[w].card, [status |-> "gone", kind |-> "note", thread |-> <<>>])
  /\ insights' = [insights EXCEPT ![thinking[w].card] = NoInsight]
  /\ UNCHANGED musings

AddComment(w) ==
  LET c == thinking[w].card IN
  Does(w, "comment") /\ WritesCard(w, c, [cards[c] EXCEPT !.thread = Append(@, "comment")])

\* saveThinkingCardEnrichment: what the owner makes of it is kept as sent and
\* counts as context.
SaveEnrichment(w) ==
  /\ Does(w, "enrichment")
  /\ insights' = [insights EXCEPT ![thinking[w].card].by = "owner"]
  /\ WritesCard(w, thinking[w].card, cards[thinking[w].card])
  /\ UNCHANGED musings

\* editableCommentProject: what tells of the card's state stays as it is, and
\* a comment that is gone by now is not found.
Editable(w) == thinking[w].seen.thread[thinking[w].ask.entry] = "comment"

UpdateComment(w) ==
  /\ Does(w, "edit comment")
  /\ IF Editable(w) THEN WritesCard(w, thinking[w].card, cards[thinking[w].card]) ELSE Refuses(w)

DeleteComment(w) ==
  LET c == thinking[w].card IN
  /\ Does(w, "delete comment")
  /\ IF Editable(w) THEN WritesCard(w, c, [cards[c] EXCEPT !.thread[thinking[w].ask.entry] = "gone"])
     ELSE Refuses(w)

----------------------------------------------------------------------------
\* createThinkingCard and add_thought: the card, ...
CreateCard(w) ==
  \E c \in CardIds, kind \in CardKinds, byApp \in BOOLEAN :
    /\ cards[c].status = "none" /\ \A b \in 1..(c - 1) : cards[b].status # "none"
    /\ thinking[w] = NoJob /\ thoughts > 0 /\ project.here
    /\ thoughts' = thoughts - 1
    /\ cards' = [cards EXCEPT ![c] = [status |-> "open", kind |-> kind, thread |-> <<>>]]
    /\ project' = [project EXCEPT !.tells = FALSE]
    /\ thinking' = Outdates(Interferes([thinking EXCEPT ![w] = [step |-> "touch", early |-> FALSE, card |-> c, byApp |-> byApp]]))
    /\ UNCHANGED insightVars

\* ... and the project, in a statement of its own; then the assistant looks at
\* the card, and if the app added it at its neighbours.
TouchProject(w) ==
  /\ StepOf(w) = "touch"
  /\ project' = [project EXCEPT !.stale = TRUE]
  /\ musings' = musings \cup {[card |-> thinking[w].card, others |-> Unread, spreads |-> thinking[w].byApp]}
  /\ ThoughtEnds(w)
  /\ UNCHANGED <<cards, insights>>

UpdateProjectQuietly(w) ==  \* mutant: updated_at alone is set
  /\ thinking[w] = NoJob /\ thoughts > 0 /\ project.here
  /\ thoughts' = thoughts - 1
  /\ project' = [project EXCEPT !.tells = FALSE]
  /\ thinking' = Outdates(Interferes(thinking))
  /\ UNCHANGED cards

\* A title or a description.
UpdateProject(w) ==
  /\ thinking[w] = NoJob /\ thoughts > 0 /\ project.here
  /\ thoughts' = thoughts - 1
  /\ project' = [project EXCEPT !.stale = TRUE, !.tells = FALSE]
  /\ thinking' = Outdates(Interferes(thinking))
  /\ UNCHANGED cards

\* Cards and threads cascade.
DeleteProject(w) ==
  /\ thinking[w] = NoJob /\ thoughts > 0 /\ project.here
  /\ \A v \in Thinkers : StepOf(v) # "locked"
  /\ thoughts' = thoughts - 1
  /\ project' = [project EXCEPT !.here = FALSE]
  /\ cards' = [c \in CardIds |-> [status |-> "gone", kind |-> "note", thread |-> <<>>]]
  /\ insights' = [c \in CardIds |-> NoInsight]
  /\ UNCHANGED <<thinking, musings>>

\* enrichThinkingCard: the owner asks for one.
EnrichCard(w) ==
  /\ thinking[w] = NoJob /\ thoughts > 0
  /\ thoughts' = thoughts - 1
  /\ \E c \in CardIds : CardHere(c) /\ musings' = musings \cup {[card |-> c, others |-> Unread, spreads |-> FALSE]}
  /\ UNCHANGED <<cards, project, thinking, insights>>

\* EnrichCardWithContext: the card and its siblings are read, ...
ReadSiblings(m) ==
  /\ m.others = Unread
  /\ musings' = (musings \ {m}) \cup
                 (IF CardHere(m.card) THEN {[m EXCEPT !.others = {c \in CardIds : CardHere(c)} \ {m.card}]} ELSE {})
  /\ UNCHANGED <<cards, project, thinking, thoughts, insights>>

\* The three youngest other cards, which may now be linked to the new one.
Neighbours(c) ==
  {b \in CardIds \ {c} : CardHere(b) /\ Cardinality({a \in CardIds \ {c} : CardHere(a) /\ a > b}) < 3}

EnrichedUnchecked(m) ==  \* mutant: whatever the assistant names is linked
  /\ m.others # Unread
  /\ \E named \in SUBSET CardIds :
       insights' = [insights EXCEPT ![m.card] = IF CardHere(m.card) THEN [by |-> "assistant", links |-> named] ELSE @]
  /\ musings' = (musings \ {m}) \cup
       (IF m.spreads THEN {[card |-> b, others |-> Unread, spreads |-> FALSE] : b \in Neighbours(m.card)} ELSE {})
  /\ UNCHANGED <<cards, project, thinking, thoughts>>

\* ... and what the assistant says of it is written over what was there, with
\* the links that lead to cards it was shown.
Enriched(m) ==
  /\ m.others # Unread
  /\ \E named \in SUBSET CardIds :
       insights' = [insights EXCEPT ![m.card] = IF CardHere(m.card)
                                                THEN [by |-> "assistant", links |-> named \cap m.others] ELSE @]
  /\ musings' = (musings \ {m}) \cup
       (IF m.spreads THEN {[card |-> b, others |-> Unread, spreads |-> FALSE] : b \in Neighbours(m.card)} ELSE {})
  /\ UNCHANGED <<cards, project, thinking, thoughts>>

\* The model fails, or the instance stops: nobody waits for the run.
EndsMusing(m) == musings' = musings \ {m} /\ UNCHANGED <<cards, project, thinking, thoughts, insights>>

\* synthesizeThinkingProject: title, cards and threads are read, ...
ReadProject(w) ==
  /\ thinking[w] = NoJob /\ thoughts > 0 /\ project.here
  /\ thoughts' = thoughts - 1
  /\ thinking' = [thinking EXCEPT ![w] = [step |-> "synthesis", tells |-> TRUE,
                                          alone |-> \A v \in Thinkers \ {w} : ~Changing(v)]]
  /\ UNCHANGED <<cards, project>>

\* ... the assistant writes, and the brief is stamped with the present.
Synthesize(w) ==
  LET brief == thinking[w] IN
  /\ brief.step = "synthesis"
  /\ project' = IF project.here
                THEN [project EXCEPT !.written = TRUE, !.stale = FALSE,
                                     !.tells = brief.tells, !.alone = brief.alone]
                ELSE project
  /\ thinking' = [v \in Thinkers |-> IF v = w THEN NoJob
                                     ELSE IF Changing(v) THEN [thinking[v] EXCEPT !.early = TRUE] ELSE thinking[v]]
  /\ UNCHANGED <<cards, thoughts>>

\* The request or the instance ends, a transaction is a deadlock's victim, or
\* the assistant fails: a card may be left whose project was not touched.
GivesUp(w) ==
  /\ thinking[w] # NoJob
  /\ thinking' = LET rest == [thinking EXCEPT ![w] = NoJob]
                 IN IF StepOf(w) = "touch" THEN Interferes(rest) ELSE rest
  /\ project' = IF StepOf(w) = "touch" THEN [project EXCEPT !.alone = FALSE] ELSE project
  /\ UNCHANGED <<cards, thoughts>>

----------------------------------------------------------------------------
\* listThinkingProjects and getThinkingProject: it has a brief, and the context
\* changed after it.
NeedsSynthesis == project.written /\ project.stale

\* A project and its first card, a question.
ThinkingStart ==
  /\ cards = [c \in CardIds |-> [status |-> IF c = 1 THEN "open" ELSE "none",
                               kind |-> IF c = 1 THEN "question" ELSE "note", thread |-> <<>>]]
  /\ project = [here |-> TRUE, written |-> FALSE, stale |-> FALSE, tells |-> FALSE, alone |-> FALSE]
  /\ thinking = [w \in Thinkers |-> NoJob]
  /\ thoughts = MaxThoughts
  /\ insights = [c \in CardIds |-> NoInsight] /\ musings = {}

ThinkingNext ==
  \/ \E w \in Thinkers :
       \/ /\ \/ BeginChange(w) \/ LockCard(w) \/ SetClosed(w) \/ UpdateCard(w)
             \/ AddComment(w) \/ UpdateComment(w) \/ DeleteComment(w)
             \/ UpdateProject(w) \/ ReadProject(w) \/ Synthesize(w) \/ GivesUp(w)
          /\ UNCHANGED insightVars
       \/ DeleteCard(w) \/ SaveEnrichment(w) \/ CreateCard(w) \/ TouchProject(w)
       \/ EnrichCard(w) \/ DeleteProject(w)
  \/ \E m \in musings : ReadSiblings(m) \/ Enriched(m) \/ EndsMusing(m)

ThinkingSpec == ThinkingStart /\ [][ThinkingNext]_thinkingVars

-----------------------------------------------------------------------------
\* A brief during whose writing no change was under way asks for a new one if
\* and only if it leaves something out, however later changes, creations and
\* syntheses interleave, once no creation has its project still to touch. A
\* change that overlaps the writing is hidden by the stamp: not covered here.
BriefFlagged ==
  project.here /\ project.written /\ project.alone /\ (\A w \in Thinkers : StepOf(w) # "touch")
    => (NeedsSynthesis <=> ~project.tells)

\* "State-change events remain an immutable audit trail": closings and
\* reopenings alternate and end with what the card is; only a card that can be
\* acted on is closed, a question with the reason in its thread.
TrailTellsState ==
  \A c \in CardIds :
    LET changes == SelectSeq(cards[c].thread, LAMBDA entry : entry \notin {"comment", "gone"})
        closing == {"closed", "closed, said why"}
    IN CardHere(c) =>
         /\ \A i \in DOMAIN changes : (changes[i] \in closing) = (i % 2 = 1)
         /\ (cards[c].status = "closed") = (Len(changes) % 2 = 1)
         /\ cards[c].status = "closed" =>
              /\ cards[c].kind \in Actionable
              /\ cards[c].kind = "question" => changes[Len(changes)] = "closed, said why"

\* What the assistant links a card to are other cards its owner has made, never
\* a card it invents or the card itself, whatever was added and deleted meanwhile.
LinksLead ==
  \A c \in CardIds : insights[c].by = "assistant" =>
    c \notin insights[c].links /\ \A b \in insights[c].links : cards[b].status # "none"

\* Of the cards: their trail and their links hold.
CardsHold == TrailTellsState /\ LinksLead

=============================================================================
