-------------------------- MODULE MCTunnelForwarder --------------------------
(* Small instances of TunnelForwarder: every session has a pod. *)
EXTENDS TunnelForwarder

MCSignalOf == CHOOSE f \in [Key -> Signal] : \A s \in Signal : \E k \in Key : f[k] = s

=============================================================================
