------------------------------- MODULE MCTpm -------------------------------
(***************************************************************************)
(* The TPM for TLC: the daemon, which sealed templates without a PCR and   *)
(* may since be configured to bind them to one, and a vault operation that *)
(* shares the primary key with it.                                         *)
(***************************************************************************)
EXTENDS Tpm, TLC

CONSTANTS daemon, vault, primary

MCPrimary == [c \in Contexts |-> primary]
MCOps == (daemon :> {"seal", "unseal", "unseal_pcr"}) @@ (vault :> {"seal_pcr", "unseal_pcr"})
=============================================================================
