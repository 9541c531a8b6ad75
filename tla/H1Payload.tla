----------------------------- MODULE H1Payload -----------------------------
(***************************************************************************)
(* h1::payload: the body of an HTTP/1 message, between the task that reads *)
(* the connection and the one that reads the body.  A FixedPayload carries *)
(* one item, a StreamPayload any number of them and an end.                *)
(*                                                                         *)
(* The reading half is shared and may be cloned; there is one waker for    *)
(* all its clones.  The feeding half holds the cell weakly and its drop    *)
(* does nothing.                                                           *)
(***************************************************************************)
EXTENDS Naturals, Sequences, FiniteSets

CONSTANTS
  Data,       \* pieces of a body
  Error,      \* errors fed in place of a piece
  Reader,     \* handles on the reading half, each polled by a task of its own
  None,       \* no waker
  MaxFed      \* bound on the items fed

VARIABLES
  kind,       \* "fixed" or "stream"
  items,      \* FixedInner::item, StreamInner::items
  eof, task,  \* of either
  sender,     \* the feeding half exists
  readers,    \* the handles that are not dropped
  waits,      \* the readers inside next()
  fresh,      \* those of them that were not polled yet
  woken,      \* the readers whose task is to run
  fed, got,   \* every item fed, and every item read
  ended       \* the readers that were answered None

vars == <<kind, items, eof, task, sender, readers, waits, fresh, woken, fed, got, ended>>

Item == Data \cup Error

TypeOK ==
  /\ kind \in {"fixed", "stream"}
  /\ items \in Seq(Item) /\ fed \in Seq(Item) /\ got \in Seq(Item)
  /\ kind = "fixed" => Len(items) <= 1
  /\ eof \in BOOLEAN /\ sender \in BOOLEAN
  /\ task \in Reader \cup {None}
  /\ readers \subseteq Reader /\ waits \subseteq readers /\ fresh \subseteq waits /\ woken \subseteq readers
  /\ ended \subseteq Reader

\* fixed_payload_pair and stream_payload_pair; FixedPayload::new is a pair whose
\* item is fed at once.
Init ==
  /\ kind \in {"fixed", "stream"}
  /\ items = <<>> /\ eof = FALSE /\ task = None
  /\ sender = TRUE /\ readers = Reader
  /\ waits = {} /\ fresh = {} /\ woken = {}
  /\ fed = <<>> /\ got = <<>> /\ ended = {}

NoWake == UNCHANGED <<task, woken>>

Wake ==
  /\ task' = None
  /\ woken' = woken \cup ({task} \cap waits)

\* The cell is gone with the last reader.
Upgrades == readers # {}

\* feed takes the sender of a fixed payload with it.
Feeds == kind = "stream"

\* feed, feed_data(Some) and feed_error.
Feed(i) ==
  /\ sender /\ Len(fed) < MaxFed
  /\ sender' = Feeds
  /\ fed' = Append(fed, i)
  /\ IF Upgrades THEN items' = Append(items, i) /\ Wake
     ELSE UNCHANGED <<items, task, woken>>
  /\ UNCHANGED <<kind, eof, readers, waits, fresh, got, ended>>

FeedEofQuietly ==
  /\ sender /\ kind = "stream"
  /\ sender' = FALSE
  /\ eof' = Upgrades /\ NoWake
  /\ UNCHANGED <<kind, items, readers, waits, fresh, fed, got, ended>>

\* feed_data(None); its callers drop the feeding half with it.
FeedEof ==
  /\ sender /\ kind = "stream"
  /\ sender' = FALSE
  /\ IF Upgrades THEN eof' = TRUE /\ Wake
     ELSE UNCHANGED <<eof, task, woken>>
  /\ UNCHANGED <<kind, items, readers, waits, fresh, fed, got, ended>>

\* The feeding half is dropped without more.
DropSender ==
  /\ sender
  /\ sender' = FALSE
  /\ UNCHANGED <<kind, items, eof, task, readers, waits, fresh, woken, fed, got, ended>>

\* An answer to reader r.
Answered(r) ==
  /\ waits' = waits \ {r} /\ fresh' = fresh \ {r} /\ woken' = woken \ {r}
  /\ UNCHANGED <<kind, task, sender, readers, fed>>

EofFirst == TRUE

\* A stream ends when it is drained.
Drained == kind = "fixed" \/ items = <<>>

Rest == Tail(items)

\* The body of the loop of next: an item, or the end, or poll_fn waits.  What
\* wakes a fixed payload from poll_fn is its item alone.
Pop(r) ==
  /\ items # <<>> /\ (kind = "fixed" => ~eof)
  /\ items' = Rest /\ got' = Append(got, Head(items))
  /\ eof' = (eof \/ kind = "fixed")
  /\ UNCHANGED ended
  /\ Answered(r)

End(r) ==
  /\ eof /\ Drained
  /\ kind = "fixed" => r \in fresh
  /\ ended' = ended \cup {r}
  /\ UNCHANGED <<items, eof, got>>
  /\ Answered(r)

Wait(r) ==
  /\ items = <<>>
  /\ eof => kind = "fixed" /\ r \notin fresh
  /\ task' = r
  /\ fresh' = fresh \ {r} /\ woken' = woken \ {r}
  /\ UNCHANGED <<kind, items, eof, sender, readers, waits, fed, got, ended>>

\* The task of r calls next(), and polls it.
Start(r) ==
  /\ r \in readers \ waits
  /\ waits' = waits \cup {r} /\ fresh' = fresh \cup {r} /\ woken' = woken \cup {r}
  /\ UNCHANGED <<kind, items, eof, task, sender, readers, fed, got, ended>>

Poll(r) ==
  /\ r \in waits
  /\ Pop(r) \/ End(r) \/ Wait(r)

Cancel(r) ==
  /\ r \in waits
  /\ waits' = waits \ {r} /\ fresh' = fresh \ {r} /\ woken' = woken \ {r}
  /\ UNCHANGED <<kind, items, eof, task, sender, readers, fed, got, ended>>

DropReader(r) ==
  /\ r \in readers
  /\ readers' = readers \ {r}
  /\ waits' = waits \ {r} /\ fresh' = fresh \ {r} /\ woken' = woken \ {r}
  /\ UNCHANGED <<kind, items, eof, task, sender, fed, got, ended>>

Next ==
  \/ \E i \in Item : Feed(i)
  \/ FeedEof
  \/ DropSender
  \/ \E r \in Reader : Start(r) \/ Poll(r) \/ Cancel(r) \/ DropReader(r)

Run(r) == r \in woken /\ Poll(r)

Spec == Init /\ [][Next]_vars
FairSpec == Spec /\ \A r \in Reader : WF_vars(Run(r))

-----------------------------------------------------------------------------
\* However the handles are cloned, dropped and polled: an item that was fed
\* while somebody could read it is read once, in its place.
ReadInOrder ==
  /\ Len(got) <= Len(fed) /\ got = SubSeq(fed, 1, Len(got))
  /\ Upgrades => fed = got \o items

\* With one handle, the payload is a channel whose sender leaves with the end
\* it feeds.  A sender that is dropped without one leaves the channel as if it
\* were to feed again: the reader waits.
Fed == eof \/ (kind = "fixed" /\ fed # <<>>)

Ch == INSTANCE Channel WITH
        Value <- Item,
        Capacity <- MaxFed,
        sent <- fed,
        open <- {e \in {"sender", "receiver"} :
                   IF e = "sender" THEN ~Fed ELSE readers # {}},
        asking <- IF waits = {} THEN {} ELSE {"recv"},
        granted <- ~Fed,
        told <- IF ended = {} THEN {} ELSE {"receiver"}

IsChannel == Ch!Spec

\* A reader that waits when an item or the end is there, or comes, is answered.
ReadsAnswered == Ch!Answered
=============================================================================
