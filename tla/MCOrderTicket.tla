----------------------------- MODULE MCOrderTicket -----------------------------
(* OrderTicket for TLC.                                                    *)
EXTENDS OrderTicket

\* Bound: once an order is out the side and the type stay as it was sent, or as
\* the ticket is mounted; beside a close the ticket is not filled in.
FieldsRest ==
  LET first == orders[1]
  IN  first.state # "unused" =>
        \/ form.qty = 0 /\ form.side = "LONG" /\ form.type = "limit" /\ form.price = Last
        \/ first.from = "ticket" /\ form.side = first.order.side /\ form.type = first.order.type
=============================================================================
