-------------------------- MODULE StockNotifications --------------------------
(***************************************************************************)
(* The low-stock worker of one product: every movement committed while the *)
(* worker listens puts an event in its queue; the worker takes the events  *)
(* one by one and compares the stock "before the movement" with the stock  *)
(* now.  Both are read from the live sum of all movements, in statements   *)
(* of their own, so movements committed meanwhile are in them; so is the   *)
(* setting that stands in for a threshold the product does not have.       *)
(*                                                                         *)
(* "crossed", "late" and "lost" are history variables.                      *)
(***************************************************************************)
EXTENDS Integers, FiniteSets, Sequences, Functions

CONSTANTS
    Quantity,      \* quantities a movement may have
    Threshold,     \* values of products.low_stock_threshold, or Nothing: NULL
    Default,       \* values of the setting "default_low_stock_threshold"
    Nothing,       \* no value
    Opening,       \* stock before the first movement
    MaxMovements   \* bound: movements of a behavior

VARIABLES
    log,         \* quantities of the committed movements, in order of their ids
    threshold,   \* products.low_stock_threshold
    default,     \* the setting "default_low_stock_threshold"
    active,      \* products.is_active
    worker,      \* "off", "listening", or "deaf": its connection is lost
    queue,       \* events it has received
    judging,     \* the event it has taken, and what it has read so far
    notes,       \* number of notifications, per category
    crossed,     \* number of movements the worker was told of that crossed a
                 \* limit of the active product
    late,        \* something changed before an event was judged
    lost         \* an event was lost

vars == <<log, threshold, default, active, worker, queue, judging, notes, crossed, late, lost>>

Categories == {"low_stock", "insufficient_stock"}

Idle == [read |-> "nothing", movement |-> 0, threshold |-> 0, after |-> 0]

(* product_valuation.on_hand_quantity *)
OnHand == Opening + SumFunction(log)

(* _get_on_hand_before_movement *)
Before(movement) == OnHand - log[movement]

(* _get_product_threshold: the setting stands in for NULL. *)
InForce == IF threshold = Nothing THEN default ELSE threshold

Limit(c, t) == IF c = "low_stock" THEN t ELSE 0

Crosses(before, after, limit) == before > limit /\ after <= limit

Pending == queue # <<>> \/ judging # Idle

Init ==
    /\ log = <<>>
    /\ threshold \in Threshold
    /\ default \in Default
    /\ active = TRUE
    /\ worker = "off"
    /\ queue = <<>>
    /\ judging = Idle
    /\ notes = [c \in Categories |-> 0]
    /\ crossed = [c \in Categories |-> 0]
    /\ late = FALSE
    /\ lost = FALSE

-----------------------------------------------------------------------------
(* The rest of the system *)

(* The stock when the first i of these movements are in, and those of them  *)
(* that cross a limit.                                                      *)
StockAfter(quantities, i) == OnHand + SumFunction(SubSeq(quantities, 1, i))

Crossing(quantities, c) ==
    {i \in 1 .. Len(quantities) :
        Crosses(StockAfter(quantities, i - 1), StockAfter(quantities, i), Limit(c, InForce))}

Listened == active /\ worker = "listening"

(* A transaction commits one movement of the product, or two: a sale with   *)
(* two lines of it.  NOTIFY is delivered with the commit, to who listens.   *)
Move(quantities) ==
    LET n == Len(quantities) IN
        /\ Len(log) + n <= MaxMovements
        /\ log' = log \o quantities
        /\ queue' = IF worker = "listening"
                    THEN queue \o [i \in 1..n |-> Len(log) + i]
                    ELSE queue
        /\ crossed' = [c \in Categories |->
                IF Listened THEN crossed[c] + Cardinality(Crossing(quantities, c)) ELSE crossed[c]]
        /\ late' = (late \/ Pending \/ n > 1)
        /\ UNCHANGED <<threshold, default, active, worker, judging, notes, lost>>

(* PATCH /products/{id} *)
SetProduct(t, a) ==
    /\ <<t, a>> # <<threshold, active>>
    /\ threshold' = t
    /\ active' = a
    /\ late' = (late \/ Pending)
    /\ UNCHANGED <<log, default, worker, queue, judging, notes, crossed, lost>>

(* PATCH /settings, its one transaction: other keys do not reach the worker. *)
WriteDefault(t) == t # default /\ default' = t

SetDefault(t) ==
    /\ WriteDefault(t)
    /\ late' = (late \/ (Pending /\ threshold = Nothing))
    /\ UNCHANGED <<log, threshold, active, worker, queue, judging, notes, crossed, lost>>

-----------------------------------------------------------------------------
(* The worker *)

(* Connect, LISTEN, and a queue of its own. *)
Listen ==
    /\ worker = "off"
    /\ worker' = "listening"
    /\ queue' = <<>>
    /\ UNCHANGED <<log, threshold, default, active, judging, notes, crossed, late, lost>>

(* The first read: threshold and activity of the product. *)
Take ==
    /\ worker # "off"
    /\ judging = Idle
    /\ queue # <<>>
    /\ queue' = Tail(queue)
    /\ judging' = IF active
                  THEN [read |-> IF threshold = Nothing THEN "null" ELSE "product",
                        movement |-> Head(queue), threshold |-> threshold, after |-> 0]
                  ELSE Idle
    /\ UNCHANGED <<log, threshold, default, active, worker, notes, crossed, late, lost>>

(* A product without a threshold of its own: the setting, read next. *)
ReadDefault ==
    /\ judging.read = "null"
    /\ judging' = [judging EXCEPT !.read = "product", !.threshold = default]
    /\ UNCHANGED <<log, threshold, default, active, worker, queue, notes, crossed, late, lost>>

ReadAfter ==
    /\ judging.read = "product"
    /\ judging' = [judging EXCEPT !.read = "after", !.after = OnHand]
    /\ UNCHANGED <<log, threshold, default, active, worker, queue, notes, crossed, late, lost>>

(* Mutation: the stock now is taken for the stock before the movement. *)
JudgesCurrent(c) == Crosses(OnHand, judging.after, Limit(c, judging.threshold))

Judges(c) == Crosses(Before(judging.movement), judging.after, Limit(c, judging.threshold))

(* The last read, the inserts and their commit. *)
Notify ==
    /\ judging.read = "after"
    /\ notes' = [c \in Categories |-> IF Judges(c) THEN notes[c] + 1 ELSE notes[c]]
    /\ judging' = Idle
    /\ UNCHANGED <<log, threshold, default, active, worker, queue, crossed, late, lost>>

(* Any exception is logged; the event is gone. *)
Drop ==
    /\ judging # Idle
    /\ judging' = Idle
    /\ lost' = TRUE
    /\ UNCHANGED <<log, threshold, default, active, worker, queue, notes, crossed, late>>

(* The connection is lost: nothing tells the loop, which waits for its queue. *)
LoseConnection ==
    /\ worker = "listening"
    /\ worker' = "deaf"
    /\ UNCHANGED <<log, threshold, default, active, queue, judging, notes, crossed, late, lost>>

(* The process stops or dies: the task is cancelled, its queue is gone. *)
Crash ==
    /\ worker' = "off"
    /\ queue' = <<>>
    /\ judging' = Idle
    /\ lost' = (lost \/ Pending)
    /\ UNCHANGED <<log, threshold, default, active, notes, crossed, late>>

Judge == Take \/ ReadDefault \/ ReadAfter \/ Notify

Next ==
    \/ \E q \in Quantity : Move(<<q>>) \/ \E p \in Quantity : Move(<<q, p>>)
    \/ \E t \in Threshold, a \in BOOLEAN : SetProduct(t, a)
    \/ \E t \in Default : SetDefault(t)
    \/ Listen \/ Judge \/ Drop \/ LoseConnection

-----------------------------------------------------------------------------

(* While the worker keeps up - no movement commits before the event of the  *)
(* one before it is judged, and none of its events is lost - every movement *)
(* that takes an active product from above a limit to or below it is        *)
(* notified, in its category, once.                                         *)
NotifiedWhileKeepingUp ==
    ~late /\ ~lost /\ ~Pending => notes = crossed

(* "notify when on_hand goes from > threshold to <= threshold"              *)
(* (Backend-Architecture-V1.0.md): no crossing goes unnoticed while the     *)
(* worker runs and loses nothing.                                           *)
CrossingNoticed ==
    ~lost /\ ~Pending /\ crossed["low_stock"] > 0 => notes["low_stock"] > 0

(* "Main LISTEN loop.  Reconnects on connection loss." *)
ListensAgain == worker = "deaf" ~> worker = "listening"

=============================================================================
