---------------------------- MODULE MCForkServer ----------------------------
(***************************************************************************)
(* Executions in every mode that makes sense: false negatives are reduced  *)
(* and servers terminated on the network only, and a persistent target     *)
(* needs the fork server, and on the network an end.                       *)
(***************************************************************************)
EXTENDS ForkServer

MCModes == {m \in [net : BOOLEAN, forksrv : BOOLEAN, persistent : BOOLEAN,
                   terminate : BOOLEAN, fnr : BOOLEAN] :
              /\ m.net \/ ~(m.terminate \/ m.fnr)
              /\ m.persistent => m.forksrv /\ (m.net => m.terminate)}

\* On the network without a fork server.
MCDirect == {m \in MCModes : ~m.forksrv /\ m.net}
=============================================================================
