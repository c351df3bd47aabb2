----------------------------- MODULE ClosedBars -----------------------------
(***************************************************************************)
(* What the bar builder promises to those who read its closed bars: the    *)
(* topic only grows, the table has a row for a symbol and minute only when *)
(* such a bar was published, and a row is always a bar of the topic.  It   *)
(* does not promise that a bar is published once, or that a row stays.     *)
(***************************************************************************)
EXTENDS SharedClients

VARIABLES topic, table

vars == <<topic, table>>

Init == topic = <<>> /\ table = empty

PublishBar(bar) == topic' = publish(topic, bar)

StoreBar(bar) ==
  /\ table' = put(table, <<bar.symbol, bar.minute>>, bar)
  /\ UNCHANGED topic

Publish == Len(topic') = Len(topic) + 1 /\ PublishBar(topic'[Len(topic')]) /\ UNCHANGED table
Store == \E n \in 1..Len(topic) : StoreBar(topic[n])

Next == Publish \/ Store

Spec == Init /\ [][Next]_vars
=============================================================================
