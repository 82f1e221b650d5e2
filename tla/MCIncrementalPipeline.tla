----------------------- MODULE MCIncrementalPipeline -----------------------
(***************************************************************************)
(* Instances of IncrementalPipeline for TLC.  One user, one product.       *)
(***************************************************************************)
EXTENDS IncrementalPipeline

DAY == 86400
At(day, hour, minute) == day * DAY + hour * 3600 + minute * 60

Ev(id, type, session, at) ==
  [id |-> id, type |-> type, session |-> session, product |-> "p", user |-> "u",
   at |-> at]

\* What sessions s1 and s2 do.  Session s1 stays within day 0 but for its own purchase
\* after midnight.  Session s2 buys the day after, and in the last second of the 30 days
\* that s1's cart opens; its view, when it arrives, moves its row to day 0.
S1View     == Ev(1, "view",     "s1", At(0, 23, 0))
S1Cart     == Ev(2, "cart",     "s1", At(0, 23, 30))
S1Purchase == Ev(6, "purchase", "s1", At(1, 0, 30))
S2View     == Ev(3, "view",     "s2", At(0, 22, 0))
S2Early    == Ev(4, "purchase", "s2", At(1, 12, 0))
S2Late     == Ev(5, "purchase", "s2", At(30, 23, 30))

LateEvents == {S1View, S1Cart, S1Purchase, S2View, S2Late}

\* The row of s2 moves from day 1 to day 0; a cart elsewhere.
MovingRow == {S1Cart, S2View, S2Early}

\* s2 buys on two days, both in the window of s1's cart.
TwoPurchases == {S1Cart, S2Early, S2Late}

\* Session s3 views before midnight and fills its cart after; s2 buys on the last of
\* the 30 days that follow the cart, 31 days after the day of the view.
AcrossMidnight == {
  Ev(7, "view",     "s3", At(0, 23, 50)),
  Ev(8, "cart",     "s3", At(1, 0, 10)),
  Ev(9, "purchase", "s2", At(31, 0, 5))}

MCSessions == {"s1", "s2", "s3"}
MCProducts == {"p"}
MCUsers == {"u"}
=============================================================================
