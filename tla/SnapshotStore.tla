--------------------------- MODULE SnapshotStore ---------------------------
(***************************************************************************)
(* What the transactional pool promises: a store of references in which a  *)
(* transaction works on the state that was committed when it began, one    *)
(* transaction at a time may write, and its writes appear all at once when *)
(* it commits.  A pointer handed out shows the same value until it is      *)
(* exchanged for another.                                                  *)
(***************************************************************************)
CONSTANTS Txs, Refs, Vals,
          Absent    \* not a member of Vals: what is read of a reference that is not allocated

VARIABLES db,     \* the committed state
          mode,   \* what each transaction is
          view,   \* the state each transaction sees, its own writes included
          out     \* what the last pointer handed to each transaction shows

storevars == <<db, mode, view, out>>

States == [Refs -> Vals \cup {Absent}]
Empty == [r \in Refs |-> Absent]
Result(r, v) == [ref |-> r, val |-> v]

StoreTypeOK ==
  /\ db \in States
  /\ mode \in [Txs -> {"idle", "reader", "writer"}]
  /\ view \in [Txs -> States]
  /\ out \in [Txs -> {Absent} \cup [ref : Refs, val : Vals \cup {Absent}]]

StoreInit ==
  /\ db = Empty
  /\ mode = [t \in Txs |-> "idle"]
  /\ view = [t \in Txs |-> Empty]
  /\ out = [t \in Txs |-> Absent]

Begin(t, m) ==
  /\ mode[t] = "idle"
  /\ m = "writer" => \A u \in Txs : mode[u] # "writer"
  /\ mode' = [mode EXCEPT ![t] = m]
  /\ view' = [view EXCEPT ![t] = db]
  /\ UNCHANGED <<db, out>>

Get(t, r) ==
  /\ mode[t] # "idle"
  /\ out' = [out EXCEPT ![t] = Result(r, view[t][r])]
  /\ UNCHANGED <<db, mode, view>>

\* A write, an allocation or a freeing; what was handed out before may be given up.
Put(t, r, v) ==
  /\ mode[t] = "writer"
  /\ view' = [view EXCEPT ![t][r] = v]
  /\ out' \in {out, [out EXCEPT ![t] = Absent], [out EXCEPT ![t] = Result(r, v)]}
  /\ UNCHANGED <<db, mode>>

End(t) ==
  /\ mode[t] # "idle"
  /\ db' = IF mode[t] = "writer" THEN view[t] ELSE db
  /\ mode' = [mode EXCEPT ![t] = "idle"]
  /\ view' = [view EXCEPT ![t] = Empty]
  /\ out' = [out EXCEPT ![t] = Absent]

Clear ==
  /\ \A t \in Txs : mode[t] = "idle"
  /\ db' = Empty
  /\ UNCHANGED <<mode, view, out>>

StoreNext ==
  \/ \E t \in Txs : \/ Begin(t, "reader") \/ Begin(t, "writer") \/ End(t)
                    \/ \E r \in Refs : Get(t, r) \/ \E v \in Vals \cup {Absent} : Put(t, r, v)
  \/ Clear

StoreSpec == StoreInit /\ [][StoreNext]_storevars
===========================================================================
