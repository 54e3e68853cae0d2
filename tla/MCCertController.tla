-------------------------- MODULE MCCertController --------------------------
(***************************************************************************)
(* Instances of CertController for TLC.  manifests/deploy.yaml registers   *)
(* one path of each kind; only /mutate-pod has a handler.                  *)
(***************************************************************************)
EXTENDS CertController

MCPaths == {"mutate-pod", "validate-pod"}

MCManifest ==
  [kind \in Kinds |-> IF kind = "mutating" THEN {"mutate-pod"} ELSE {"validate-pod"}]

MCHandlers == {"mutate-pod"}

=============================================================================
