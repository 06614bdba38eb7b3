----------------------------- MODULE RecordPage -----------------------------
(***************************************************************************)
(* The page of the records (record_query.html): a field with a date, the   *)
(* questions for the records of a day, and the list the answers fill       *)
(* (ScrollSpy).                                                            *)
(*                                                                         *)
(* The page asks for today's records when it is loaded, and again for the  *)
(* date in the field whenever the button is clicked; nothing keeps a user  *)
(* from changing the date or clicking again before the answer has come.    *)
(* Each answer replaces the rows, in the order in which the answers come.  *)
(* A question that fails is only logged.                                   *)
(*                                                                         *)
(* Left out: the picture of the row that is clicked.                       *)
(***************************************************************************)
EXTENDS ScrollSpy, Sequences

CONSTANTS
    Day,            \* the dates that can be chosen
    Today,          \* the one of initDateval()
    NoDay,          \* the field is empty
    MaxQuestions    \* bound: questions of one visit

ASSUME RecordAssumption ==
    /\ Today \in Day /\ NoDay \notin Day
    /\ MaxQuestions \in Nat \ {0}

VARIABLES
    dateval,        \* the date in the field
    questions,      \* the dates asked for, in order
    unanswered,     \* the questions (their numbers) under way
    items,          \* the date whose records the list shows
    newest,         \* the latest question that was answered, or 0 (history)
    overtaken       \* an answer came after that to a later question (history)

questionVars == <<dateval, questions, unanswered, items, newest, overtaken>>
recordVars == <<spyVars, questionVars>>

\* mounted() has asked for today's records.
RecordInit ==
    /\ SpyInit
    /\ dateval = Today
    /\ questions = <<Today>> /\ unanswered = {1}
    /\ items = NoDay
    /\ newest = 0 /\ overtaken = FALSE

ChangeDate(d) ==
    /\ d # dateval
    /\ dateval' = d
    /\ UNCHANGED <<spyVars, questions, unanswered, items, newest, overtaken>>

\* get_data()
GetData ==
    /\ Len(questions) < MaxQuestions
    /\ questions' = Append(questions, dateval)
    /\ unanswered' = unanswered \union {Len(questions')}
    /\ UNCHANGED <<spyVars, dateval, items, newest, overtaken>>

\* The server's answer: the records it has of that day, and none of no day.
RowsOf(d) == [Part -> IF d = NoDay THEN {0} ELSE 0 .. MaxSize]

\* The history of an answer to question q.
Note(q) ==
    /\ newest' = IF q > newest THEN q ELSE newest
    /\ overtaken' = (overtaken \/ q < newest)

\* Faulty: the rows are taken for those of the date now in the field, as if the
\* question had been put when its answer came.
Answered_FieldNow(q) ==
    /\ q \in unanswered
    /\ unanswered' = unanswered \ {q}
    /\ items' = dateval
    /\ \E sizes \in RowsOf(dateval) : Refill(sizes)
    /\ Note(q)
    /\ UNCHANGED <<dateval, questions>>

\* this.items = response.data
Answered(q) ==
    /\ q \in unanswered
    /\ unanswered' = unanswered \ {q}
    /\ items' = questions[q]
    /\ \E sizes \in RowsOf(questions[q]) : Refill(sizes)
    /\ Note(q)
    /\ UNCHANGED <<dateval, questions>>

\* The list stays as it was.
QuestionFails(q) ==
    /\ q \in unanswered
    /\ unanswered' = unanswered \ {q}
    /\ UNCHANGED <<spyVars, dateval, questions, items, newest, overtaken>>

RecordNext ==
    \/ SpyNext /\ UNCHANGED questionVars
    \/ \E d \in Day \union {NoDay} : ChangeDate(d)
    \/ GetData
    \/ \E q \in unanswered : Answered(q) \/ QuestionFails(q)

RecordSpec == RecordInit /\ [][RecordNext]_recordVars

-----------------------------------------------------------------------------
\* As long as no answer has come after that to a later question, the list shows
\* the day of the latest question that was answered: whatever the field says by
\* then, and whatever questions are still under way or have failed
\* (record_query.html:214-221).
ListOfLatestAnswer ==
    ~ overtaken => items = IF newest = 0 THEN NoDay ELSE questions[newest]
=============================================================================
