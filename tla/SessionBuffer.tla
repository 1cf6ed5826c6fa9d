---------------------------- MODULE SessionBuffer ----------------------------
(***************************************************************************)
(* The text that a serial session received and the calls that read it      *)
(* (src/src/core/serial/session-buffer.ts).  Completed lines are numbered  *)
(* by cursors; the oldest are evicted when lines or bytes run out.  A read *)
(* looks at the buffer, may hand what it saw to a pattern matcher and wait *)
(* for it, and then answers, looks again, or sleeps until something        *)
(* changed.  Of a text only its size is kept, and decoding and framing     *)
(* are reduced to what they give: a character, the end of a line, nothing. *)
(***************************************************************************)
EXTENDS Integers, Sequences, FiniteSets

CONSTANTS
  Reader,
  Calls,         \* the options a call may have: whether it waits for a
                 \* pattern, and whether it has the compatibility semantics
  MaxLines, BufferBytes, LineBytes,
  PageLines, PageBytes,
  MaxWaiters,
  MaxReceived    \* bound: how many lines are completed

ASSUME BufferAssumption ==
  /\ IsFiniteSet(Reader)
  /\ Calls \subseteq [pattern: BOOLEAN, reference: BOOLEAN]
  /\ {MaxLines, LineBytes, PageLines, MaxWaiters} \subseteq Nat \ {0}
  /\ BufferBytes \in Nat /\ PageBytes \in Nat /\ MaxReceived \in Nat
  /\ LineBytes <= BufferBytes /\ LineBytes <= PageBytes

VARIABLES
  first,     \* the cursor of the oldest line that is retained
  offset,    \* offset[n + 1]: the bytes of the n oldest lines that are retained
  stored,    \* storedBytes
  partial,   \* the bytes of the line that is not completed
  ended,     \* the buffer is closed; how, is left out
  phase,     \* what each reader does
  call,      \* the options of the call it is in, or NoCall
  cursor,    \* where its next call will read
  view,      \* what the call saw
  changed,   \* the readers that saw an older revision
  expired,   \* those whose deadline has passed
  got, lost  \* history: the lines a reader was given, and how many it was told it lost

text == <<first, offset, stored, partial, ended>>
readers == <<phase, call, cursor, view, changed, expired, got, lost>>

NextCursor == first + Len(offset) - 1

Views == [from: Nat, to: Nat, latest: Nat, partial: Nat,
          dropped: Nat, more: BOOLEAN, open: BOOLEAN]
NoCall == [pattern |-> FALSE]
NoView == [from |-> 0, to |-> 0, latest |-> 0, partial |-> 0,
           dropped |-> 0, more |-> FALSE, open |-> TRUE]

BufferTypeOK ==
  /\ first \in Nat
  /\ offset \in Seq(Nat) /\ offset # <<>>
  /\ stored \in 0 .. BufferBytes
  /\ partial \in 0 .. LineBytes
  /\ ended \in BOOLEAN
  /\ phase \in [Reader -> {"reading", "matching", "waiting", "finished", "cancelled"}]
  /\ call \in [Reader -> Calls \cup {NoCall}]
  /\ cursor \in [Reader -> Nat]
  /\ view \in [Reader -> Views]
  /\ changed \subseteq Reader /\ expired \subseteq Reader
  /\ got \in [Reader -> SUBSET Nat]
  /\ lost \in [Reader -> Nat]

BufferInit ==
  /\ first = 0 /\ offset = <<0>> /\ stored = 0
  /\ partial = 0
  /\ ended = FALSE
  /\ phase = [r \in Reader |-> "reading"]
  /\ call = [r \in Reader |-> NoCall]
  /\ cursor = [r \in Reader |-> 0]
  /\ view = [r \in Reader |-> NoView]
  /\ changed = {} /\ expired = {}
  /\ got = [r \in Reader |-> {}]
  /\ lost = [r \in Reader |-> 0]

(* The bytes of the retained lines with cursors from .. to - 1.            *)
Bytes(from, to) == offset[to - first + 1] - offset[from - first + 1]

-----------------------------------------------------------------------------
(* Receiving *)

(* changed(): a new revision, and every sleeping reader looks again.       *)
Changed ==
  /\ phase' = [r \in Reader |-> IF phase[r] = "waiting" THEN "reading" ELSE phase[r]]
  /\ changed' = changed \cup {r \in Reader : phase[r] = "matching"}
  /\ UNCHANGED <<call, cursor, view, expired, got, lost>>

(* The oldest lines go, one by one, until lines and bytes are enough for   *)
(* what comes.                                                             *)
EvictTo(f, lines, bytes) ==
  LET Enough(g) == /\ NextCursor - g + lines <= MaxLines
                   /\ stored - Bytes(first, g) + bytes <= BufferBytes
  IN  /\ Enough(f) \/ f = NextCursor
      /\ \A g \in first .. NextCursor : g < f => ~Enough(g)

(* The offsets without the lines before cursor f.                          *)
From(f) ==
  [n \in 1 .. NextCursor - f + 1 |-> offset[n + f - first] - offset[f - first + 1]]

Grown == IF partial < LineBytes THEN partial + 1 ELSE partial

(* Wrong: the line that is not completed has a budget of its own. *)
CharacterApart ==
  /\ partial' = Grown
  /\ UNCHANGED <<first, offset, stored>>

(* A character that no longer fits its line is counted and left out.       *)
Character ==
  /\ partial' = Grown
  /\ \E f \in first .. NextCursor :
       /\ EvictTo(f, 0, Grown)
       /\ first' = f
       /\ stored' = stored - Bytes(first, f)
       /\ offset' = From(f)

(* Redaction may put a marker in place of a secret: a longer text, of      *)
(* which at most LineBytes are kept.                                       *)
Filtered == IF partial = 0 THEN {0} ELSE {partial, LineBytes}

FinishLine ==
  /\ NextCursor < MaxReceived
  /\ \E bytes \in Filtered, f \in first .. NextCursor :
       /\ EvictTo(f, 1, bytes)
       /\ first' = f
       /\ stored' = stored - Bytes(first, f) + bytes
       /\ offset' = Append(From(f), Bytes(f, NextCursor) + bytes)
  /\ partial' = 0

(* A chunk may also bring no character: part of one, or the second half of *)
(* a line end.                                                             *)
Receive ==
  /\ ~ended
  /\ \/ Character
     \/ FinishLine
     \/ UNCHANGED <<first, offset, stored, partial>>
  /\ Changed
  /\ UNCHANGED ended

(* What is left of an incomplete character becomes a last one.             *)
CloseBuffer ==
  /\ ~ended
  /\ \/ Character
     \/ UNCHANGED <<first, offset, stored, partial>>
  /\ ended' = TRUE
  /\ Changed

-----------------------------------------------------------------------------
(* Reading *)

(* Wrong: a line must leave room for another one. *)
FitsStrictly(from, to) ==
  to - from <= PageLines /\ Bytes(from, to) < PageBytes

Fits(from, to) ==
  to - from <= PageLines /\ Bytes(from, to) <= PageBytes

(* snapshot(): a page from the cursor, or from what is left after it, and  *)
(* the incomplete line when the page reaches it and has room.              *)
Snapshot(r) ==
  LET from == IF cursor[r] < first THEN first ELSE cursor[r]
      Full == {t \in from .. NextCursor : /\ Fits(from, t)
                                          /\ t < NextCursor => ~Fits(from, t + 1)}
      Shows(to, size) == /\ to = NextCursor
                         /\ to - from < PageLines
                         /\ Bytes(from, to) + size <= PageBytes
  IN  {[from    |-> from,
        to      |-> to,
        latest  |-> NextCursor,
        partial |-> IF Shows(to, size) THEN partial ELSE 0,
        dropped |-> from - cursor[r],
        more    |-> to < NextCursor \/ (~Shows(to, size) /\ partial > 0),
        open    |-> ~ended] : to \in Full, size \in Filtered}

(* Wrong: the next call reads on after all that there was. *)
AnswerSkipping(r, v, to, open, more) ==
  /\ phase' = [phase EXCEPT ![r] = IF ~open /\ ~more THEN "finished" ELSE "reading"]
  /\ call' = [call EXCEPT ![r] = NoCall]
  /\ cursor' = [cursor EXCEPT ![r] = v.latest]
  /\ view' = [view EXCEPT ![r] = IF ~open /\ ~more THEN v ELSE NoView]
  /\ got' = [got EXCEPT ![r] = @ \cup v.from .. to - 1]
  /\ lost' = [lost EXCEPT ![r] = @ + v.dropped]
  /\ expired' = expired \ {r}
  /\ changed' = changed \ {r}

(* The call answers.  A caller that collects what a session says reads on, *)
(* until an answer says that the stream has ended and that there is no     *)
(* more.                                                                   *)
Answer(r, v, to, open, more) ==
  /\ phase' = [phase EXCEPT ![r] = IF ~open /\ ~more THEN "finished" ELSE "reading"]
  /\ call' = [call EXCEPT ![r] = NoCall]
  /\ cursor' = [cursor EXCEPT ![r] = to]
  /\ view' = [view EXCEPT ![r] = IF ~open /\ ~more THEN v ELSE NoView]
  /\ got' = [got EXCEPT ![r] = @ \cup v.from .. to - 1]
  /\ lost' = [lost EXCEPT ![r] = @ + v.dropped]
  /\ expired' = expired \ {r}
  /\ changed' = changed \ {r}

Again(r) ==
  /\ phase' = [phase EXCEPT ![r] = "reading"]
  /\ view' = [view EXCEPT ![r] = NoView]
  /\ changed' = changed \ {r}
  /\ UNCHANGED <<call, cursor, expired, got, lost>>

(* At most MaxWaiters readers sleep; one more is refused, and may come     *)
(* again.                                                                  *)
Sleep(r, c) ==
  /\ Cardinality({s \in Reader : phase[s] = "waiting"}) < MaxWaiters
  /\ phase' = [phase EXCEPT ![r] = "waiting"]
  /\ call' = [call EXCEPT ![r] = c]
  /\ view' = [view EXCEPT ![r] = NoView]
  /\ UNCHANGED <<cursor, changed, expired, got, lost>>

(* Whether a call that found no pattern, and missed no change, answers.    *)
Ready(r, c, v) ==
  \/ ~v.open \/ r \in expired
  \/ ~c.pattern /\ v.to > v.from
  \/ /\ ~c.reference
     /\ v.more \/ v.to - v.from = PageLines \/ (~c.pattern /\ v.partial > 0)

AnswerOrSleep(r, c, v) ==
  \/ Ready(r, c, v) /\ Answer(r, v, v.to, v.open, v.more)
  \/ ~Ready(r, c, v) /\ Sleep(r, c)

(* A call begins, or goes round its loop.  Without a pattern it is decided *)
(* at once, and a first look may be all that its caller has time for; the  *)
(* matcher works on a copy of what was seen.                               *)
Look(r) ==
  /\ phase[r] = "reading"
  /\ \E c \in IF call[r] = NoCall THEN Calls ELSE {call[r]}, v \in Snapshot(r) :
       \/ ~c.pattern /\ AnswerOrSleep(r, c, v)
       \/ ~c.pattern /\ call[r] = NoCall /\ Answer(r, v, v.to, v.open, v.more)
       \/ /\ c.pattern
          /\ phase' = [phase EXCEPT ![r] = "matching"]
          /\ call' = [call EXCEPT ![r] = c]
          /\ view' = [view EXCEPT ![r] = v]
          /\ UNCHANGED <<cursor, changed, expired, got, lost>>
  /\ UNCHANGED text

(* Wrong: the answer is as of the time when the call looked. *)
MoreAsSeen(r, v) == v.more

(* What came while the matcher ran is more, too.                           *)
More(r, v) ==
  \/ v.more \/ v.to < NextCursor
  \/ r \in changed /\ partial # v.partial

Found(r) ==
  LET v == view[r]
  IN  /\ phase[r] = "matching"
      /\ ~call[r].reference /\ (v.to > v.from \/ v.partial > 0)
      /\ Answer(r, v, v.to, ~ended, More(r, v))
      /\ UNCHANGED text

(* The compatibility semantics match all that is retained, and cut the     *)
(* page after the match.                                                   *)
FoundLine(r) ==
  LET v == view[r]
  IN  /\ phase[r] = "matching" /\ call[r].reference
      /\ \E m \in v.from .. v.latest - 1 :
           LET to == IF m < v.to THEN m + 1 ELSE v.to
           IN  Answer(r, v, to, v.open, v.more \/ to < v.latest)
      /\ UNCHANGED text

NotFound(r) ==
  LET v == view[r]
  IN  /\ phase[r] = "matching"
      /\ \/ r \notin changed /\ AnswerOrSleep(r, call[r], v)
         \/ /\ r \in changed /\ call[r].reference
            /\ IF ~v.open \/ r \in expired THEN Answer(r, v, v.to, v.open, v.more)
                                           ELSE Again(r)
         \/ /\ r \in changed /\ ~call[r].reference
            /\ IF r \in expired
                 THEN \E w \in Snapshot(r) : Answer(r, w, w.to, w.open, w.more)
                 ELSE Again(r)
      /\ UNCHANGED text

(* The deadline passes, and wakes the call if it sleeps.                   *)
Expire(r) ==
  /\ phase[r] \in {"matching", "waiting"} /\ r \notin expired
  /\ expired' = expired \cup {r}
  /\ phase' = [phase EXCEPT ![r] = IF @ = "waiting" THEN "reading" ELSE @]
  /\ UNCHANGED <<call, cursor, view, changed, got, lost>>
  /\ UNCHANGED text

(* The caller goes, and its signal ends the call; the reader is forgotten. *)
Cancel(r) ==
  /\ phase[r] \in {"reading", "matching", "waiting"}
  /\ phase' = [phase EXCEPT ![r] = "cancelled"]
  /\ call' = [call EXCEPT ![r] = NoCall]
  /\ cursor' = [cursor EXCEPT ![r] = 0]
  /\ view' = [view EXCEPT ![r] = NoView]
  /\ got' = [got EXCEPT ![r] = {}] /\ lost' = [lost EXCEPT ![r] = 0]
  /\ expired' = expired \ {r} /\ changed' = changed \ {r}
  /\ UNCHANGED text

Read(r) == Look(r) \/ Found(r) \/ FoundLine(r) \/ NotFound(r)

BufferStep == \E r \in Reader : Read(r) \/ Expire(r) \/ Cancel(r)

-----------------------------------------------------------------------------
(* Properties *)

(* A reader that continues where its last answer ended has been given, or  *)
(* been told of as lost, every line before its cursor; what it was told is *)
(* lost had been evicted, and nothing is counted twice.                    *)
LinesAccounted ==
  \A r \in Reader :
    /\ Cardinality(got[r]) + lost[r] = cursor[r]
    /\ (0 .. cursor[r] - 1) \ got[r] \subseteq 0 .. first - 1

(* The lines that are retained and the one that is not completed share the *)
(* budget, and the counter of their bytes does not drift.                  *)
BudgetKept ==
  /\ NextCursor - first <= MaxLines
  /\ stored + partial <= BufferBytes
  /\ stored = Bytes(first, NextCursor)

(* A reader that was told of the end, and that there is no more, knows     *)
(* everything that was left, the incomplete line included, though the      *)
(* stream moved on and ended while its pattern was looked for.             *)
ToldEverything ==
  \A r \in Reader :
    phase[r] = "finished" => cursor[r] = NextCursor /\ view[r].partial = partial
=============================================================================
