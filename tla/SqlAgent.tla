------------------------------- MODULE SqlAgent -------------------------------
(***************************************************************************)
(* The SQL agent, app/agents/sql: agent.py drafts a statement and retries  *)
(* once with the error, tool.py guards, caps and runs it (guard.py), on an *)
(* engine whose connections cannot write (read_only_engine).               *)
(*                                                                         *)
(* A draft is what the language model answers, anything: its number of     *)
(* statements, the first keyword, whether a forbidden one is in it, its    *)
(* own LIMIT (NoLimit for none), whether the database can run it and the   *)
(* rows it has over the sample data.  The tables it reads and the names    *)
(* the guard checks are two fields, and neither decides the other: the     *)
(* guard collects, as a best effort, what directly follows the keyword     *)
(* FROM or JOIN, and a statement has other ways to name a table, as the    *)
(* database has tables of its own beside those of the sample data.         *)
(***************************************************************************)
EXTENDS Naturals, FiniteSets

CONSTANTS
  Asking,        \* runs that may use this agent
  Drafts,        \* a set of drafts
  AllowedTables, \* ALLOWED_TABLES
  MaxRows,       \* SQL_AGENT_MAX_ROWS
  MaxAttempts,
  NoLimit,
  NoError

ASSUME SqlAssumption ==
  /\ MaxRows \in Nat /\ MaxAttempts \in Nat \ {0}
  /\ NoLimit \notin Nat
  /\ \A d \in Drafts : /\ d.statements \in Nat /\ d.limit \in Nat \cup {NoLimit}
                       /\ d.first \in STRING /\ d.forbidden \in BOOLEAN /\ d.runs \in BOOLEAN
                       /\ d.rows \in Nat

VARIABLES
  attempts,   \* attempts made, per run
  error,      \* error of the last attempt that failed
  shown,      \* the statement an answer is about, {} before
  rowsShown,  \* how many rows the answer has
  refused     \* history: drafts that failed, with the error

sqlVars == <<attempts, error, shown, rowsShown, refused>>

Errors == {"empty", "several", "not a select", "forbidden", "unknown table", "failed"}

SqlTypeOK ==
  /\ attempts \in [Asking -> 0..MaxAttempts]
  /\ error \in [Asking -> Errors \cup {NoError}]
  /\ shown \in [Asking -> {{}} \cup {{d} : d \in Drafts}]
  /\ rowsShown \in [Asking -> 0..MaxRows]
  /\ refused \in [Asking -> SUBSET ((1..MaxAttempts) \X Errors)]

SqlInit ==
  /\ attempts = [r \in Asking |-> 0]
  /\ error = [r \in Asking |-> NoError]
  /\ shown = [r \in Asking |-> {}]
  /\ rowsShown = [r \in Asking |-> 0]
  /\ refused = [r \in Asking |-> {}]

-----------------------------------------------------------------------------
\* validate_select: the first check that fails, in this order.
Rejection(d) ==
  CASE d.statements = 0                     -> "empty"
    [] d.statements > 1                     -> "several"
    [] d.first \notin {"SELECT", "WITH"}    -> "not a select"
    [] d.forbidden                          -> "forbidden"
    [] ~(d.names \subseteq AllowedTables)   -> "unknown table"
    [] OTHER                                -> NoError

\* ensure_limit appends LIMIT MaxRows to a statement without one of its own.
Limited(d) == IF d.limit = NoLimit THEN MaxRows ELSE d.limit

Least(S) == CHOOSE n \in S : \A k \in S : n <= k

\* The tables of the sample data that a statement reads.  What else it reads is
\* the database's own and always there.
SampleTables(d) == d.tables \cap AllowedTables

\* fetchmany(max_rows), when `there` are the tables that have their rows.
Fetched(d, there) ==
  Least({MaxRows, Limited(d), IF SampleTables(d) \subseteq there THEN d.rows ELSE 0})

\* One turn of the loop of SqlAgent.run over the tables that exist and those
\* that have rows.
Attempt(r, exist, there) ==
  /\ shown[r] = {} /\ attempts[r] < MaxAttempts
  /\ attempts' = [attempts EXCEPT ![r] = @ + 1]
  /\ \E d \in Drafts :
       LET wrong == IF Rejection(d) # NoError THEN Rejection(d)
                    ELSE IF d.runs /\ SampleTables(d) \subseteq exist THEN NoError ELSE "failed"
       IN IF wrong = NoError
            THEN /\ shown' = [shown EXCEPT ![r] = {d}]
                 /\ rowsShown' = [rowsShown EXCEPT ![r] = Fetched(d, there)]
                 /\ UNCHANGED <<error, refused>>
            ELSE /\ error' = [error EXCEPT ![r] = wrong]
                 /\ refused' = [refused EXCEPT ![r] = @ \cup {<<attempts'[r], wrong>>}]
                 /\ UNCHANGED <<shown, rowsShown>>

SqlAnswered(r) == shown[r] # {}
SqlGaveUp(r)   == shown[r] = {} /\ attempts[r] = MaxAttempts

-----------------------------------------------------------------------------
\* An answer is about a statement that validate_select let through, never one of
\* an attempt that failed, and shows all the rows that statement has over the
\* whole sample data, up to its own limit and MaxRows: never those of a database
\* that is only half created, although the agent's engine is cached by a request
\* and its tables may be created and seeded by another.  An agent that gives up
\* has tried MaxAttempts drafts and reports what was wrong with the last one.
\* Which tables the statement reads is not part of it: see `names` above.
SqlHolds(r) ==
  /\ \A d \in shown[r] : Rejection(d) = NoError /\ rowsShown[r] = Fetched(d, AllowedTables)
  /\ SqlGaveUp(r) => /\ {p[1] : p \in refused[r]} = 1..MaxAttempts
                     /\ <<MaxAttempts, error[r]>> \in refused[r]

=============================================================================
