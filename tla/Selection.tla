------------------------------ MODULE Selection ------------------------------
(* The choice of the rows of an inbox by what they are: the comprehensions of *)
(* InboxConsumer (multi_agent/inbox/consumer.py) and the WHERE of the queries *)
(* of InboxMQ (persistence/adapters/inbox_mq.py), for Inbox and RequestScope. *)
EXTENDS Naturals, SequencesExt

\* The elements of s that are in T, in their order.
Only(s, T) ==
    LET only[i \in 0..Len(s)] ==
            IF i = 0 THEN <<>>
            ELSE IF s[i] \in T THEN Append(only[i - 1], s[i]) ELSE only[i - 1]
    IN  only[Len(s)]

\* The first n elements of s: the LIMIT of the queries.
FirstOf(n, s) == SubSeq(s, 1, IF n < Len(s) THEN n ELSE Len(s))

=============================================================================
