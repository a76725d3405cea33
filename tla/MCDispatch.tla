----------------------------- MODULE MCDispatch -----------------------------
(* Instances of Dispatch for TLC.                                           *)
EXTENDS Dispatch, TLC

Symmetry == Permutations(Requests) \cup Permutations(Proxies)
RequestSymmetry == Permutations(Requests)  \* where Loaded names a proxy

Config(direct, restricted, stagger, local) ==
    [direct |-> direct, restricted |-> restricted, stagger |-> stagger, local |-> local]
SomeConfigs ==
    {Config({}, {}, FALSE, FALSE),          \* two batches, the machine as a last resort
     Config({}, Domains, TRUE, TRUE),       \* one race; the policy excludes the machine
     Config(Domains, {}, FALSE, FALSE)}     \* the domain is served directly
=============================================================================
