------------------------------- MODULE Storage -------------------------------
(***************************************************************************)
(* The storage of the order book and of the risk engine, one or the other  *)
(* at work: they share no state, so every pair of their states is reached  *)
(* by reaching each.                                                       *)
(***************************************************************************)
EXTENDS BookStore, RiskStore

VARIABLE atWork

storageVars == <<bookStoreVars, riskStoreVars, atWork>>

\* The one that is not at work starts in one state.
StorageInit ==
  /\ BookStoreInit /\ RiskStoreInit
  /\ atWork \in {"book", "risk"}
  /\ atWork = "risk" => home = CHOOSE h \in Homes : TRUE
  /\ atWork = "book" => /\ riskHome = CHOOSE h \in RiskHomes : TRUE
                        /\ engine = EngineFromState(risk)

StorageNext ==
  \/ atWork = "book" /\ BookStoreNext /\ UNCHANGED <<riskStoreVars, atWork>>
  \/ atWork = "risk" /\ RiskStoreNext /\ UNCHANGED <<bookStoreVars, atWork>>

StorageSpec == StorageInit /\ [][StorageNext]_storageVars
=============================================================================
