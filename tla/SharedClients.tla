---------------------------- MODULE SharedClients ----------------------------
(***************************************************************************)
(* The three stores every service reaches through shared/: a Kafka topic   *)
(* of one partition is the sequence of its records, a Redis namespace or a *)
(* table is a function of its keys.  A client that is switched off (kafka, *)
(* redis or postgres disabled) does nothing; the models have it on.        *)
(***************************************************************************)
EXTENDS Sequences, Integers

\* publish waits for the acknowledgement: the record is in the topic when it
\* returns.  A record's offset is its place.
publish(topic, event) == Append(topic, event)

\* poll: n records from the offset after `from`, each with its offset.
poll(topic, from, n) ==
  [i \in 1..n |-> [offset |-> from + i, value |-> topic[from + i]]]

\* set_json, and INSERT ... ON CONFLICT (key) DO UPDATE: the value of a key is
\* replaced whole.
put(f, key, value) ==
  [k \in DOMAIN f \cup {key} |-> IF k = key THEN value ELSE f[k]]

empty == [k \in {} |-> {}]
=============================================================================
