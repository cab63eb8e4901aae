--------------------------- MODULE MessageCursor ---------------------------
(***************************************************************************)
(* The cursor the message service keeps per chat: how far back the history *)
(* of the chat has been read from the status-go database.                  *)
(*                                                                         *)
(* In the code a position is a string, the 64-digit clock of a message     *)
(* followed by its id, compared as a string: a total order on messages.    *)
(* Here a position is a natural number, and Empty is the empty string,     *)
(* which is smaller than every position.                                   *)
(*                                                                         *)
(* The definitions marked as variants are mistakes that were not made:     *)
(* each is what a plausible slip would give in place of the definition     *)
(* after it, and a property of MessageLoading rejects it.                  *)
(***************************************************************************)
EXTENDS Naturals, FiniteSets

CONSTANTS
  MaxClock,  \* the newest message a chat of the model can hold
  NoCursor   \* a chat without an entry in the cursor table

ASSUME MaxClockAssumption == MaxClock \in Nat \ {0}

Empty == 0

Position == 1..MaxClock

CursorValue == Position \cup {Empty}

MessageCursor == [value : CursorValue, pending : BOOLEAN, mostRecent : BOOLEAN]

ASSUME NoCursorAssumption == NoCursor \notin MessageCursor

\* A variant: a cursor that starts above every message instead of empty.
InitMessageCursorAtTop ==
  [value |-> MaxClock + 1, pending |-> FALSE, mostRecent |-> FALSE]

InitMessageCursor ==
  [value |-> Empty, pending |-> FALSE, mostRecent |-> FALSE]

InitOrGet(cursor) == IF cursor = NoCursor THEN InitMessageCursor ELSE cursor

\* A variant: the answer forgets to end the wait.
SetValueStaysPending(cursor, value) ==
  IF value \in {Empty, cursor.value}
  THEN [cursor EXCEPT !.mostRecent = TRUE]
  ELSE [cursor EXCEPT !.value = value]

\* A variant: an empty position is stored like any other.
SetValueUnchecked(cursor, value) ==
  [cursor EXCEPT !.value = value, !.pending = FALSE, !.mostRecent = value = Empty]

(***************************************************************************)
(* The answer of a page read: an empty or an unchanged position means that *)
(* there is nothing older.  The flag mostRecent is only ever set here.     *)
(***************************************************************************)
SetValue(cursor, value) ==
  IF value \in {Empty, cursor.value}
  THEN [cursor EXCEPT !.mostRecent = TRUE, !.pending = FALSE]
  ELSE [cursor EXCEPT !.value = value, !.pending = FALSE]

SetPending(cursor) == [cursor EXCEPT !.pending = TRUE]

\* A variant: only the end of the history stops a load.
IsFetchableWhilePending(cursor) == ~cursor.mostRecent

IsFetchable(cursor) == ~(cursor.pending \/ cursor.mostRecent)

\* A variant: an exhausted cursor stays exhausted.
MakeObsoleteNever(cursor) == cursor

MakeObsolete(cursor) == [cursor EXCEPT !.mostRecent = FALSE]

\* A variant: the comparison the other way round.
IsGreaterThan(cursor, value) == value < cursor.value

IsLessThan(cursor, value) == cursor.value < value

\* The position status-go returns with a page of at most limit messages: the
\* newest message left out, or Empty when none is.
NextPositions(candidates, limit) ==
  IF Cardinality(candidates) <= limit
  THEN {Empty}
  ELSE {n \in candidates : Cardinality({m \in candidates : m > n}) = limit}
=============================================================================
