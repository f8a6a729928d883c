---------------------------- MODULE MCAuthority ----------------------------
(***************************************************************************)
(* A Controller that runs every operation in the documented order, and a   *)
(* second adapter process.                                                 *)
(***************************************************************************)
EXTENDS Authority, TLC

CONSTANTS lead, second, ledger, config

\* The second process imports observations in locked transactions, and may
\* select another mode.
MCOpsOf == lead :> Op \ {"observe"} @@ second :> {"observe", "switch"}

\* Both run plain ledger commands.
MCWriters == lead :> {"establish", "update", "recover"} @@ second :> {"update"}
MCClosers == lead :> {"establish", "observe", "close"} @@ second :> {"observe"}
=============================================================================
