----------------------------- MODULE MCWatcher ------------------------------
(***************************************************************************)
(* Instances of Watcher for TLC.  Names are sequences of bytes, of which   *)
(* Top is the largest.  The first key is a prefix of the second, and a     *)
(* watch of the first alone gets the events of both from etcd; the empty   *)
(* prefix has no end.                                                      *)
(***************************************************************************)
EXTENDS Watcher, KeyRange

MCKeys == {<<1>>, <<1, Top>>}
MCNames == {<< >>, <<1>>}
MCExtends == [n \in Names |-> {k \in Keys : IsPrefix(n, k)}]
MCNoEnd == {n \in Names : getPrefix(n) = Zero}

\* The end that Watch asks etcd for, and the range that mvcc makes of it.
EndOf(w) == IF w.prefix THEN getPrefix(w.key) ELSE << >>
MCEtcdRange == [w \in Watches |->
  {k \in Keys : ~Before(k, w.key) /\ (EndOf(w) = << >> \/ Before(k, EndOf(w)))}]

Watch(n, p)   == [watch |-> [key |-> n, prefix |-> p], rev |-> 0, cancel |-> FALSE]
Unwatch(n, p) == [Watch(n, p) EXCEPT !.cancel = TRUE]

\* Overlapping watches, one of them with its history, and one of every key.
OverlapAsks == {Watch(<<1>>, TRUE), [Watch(<<1>>, FALSE) EXCEPT !.rev = 1],
                Unwatch(<<1>>, TRUE), Unwatch(<<1>>, FALSE), Watch(<< >>, TRUE)}
=============================================================================
