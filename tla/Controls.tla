------------------------------ MODULE Controls ------------------------------
(***************************************************************************)
(* The control reports: which controls of four frameworks and of SOC2 the  *)
(* running configuration enforces (qw-cbom frameworks.rs and soc2.rs, with *)
(* the handlers that read the configuration), and the gates a pipeline     *)
(* asks.                                                                   *)
(*                                                                         *)
(* A configuration is the record of the settings the reports look at:      *)
(* booleans, but for enforce, which is "off", "monitor" or "enforce".      *)
(***************************************************************************)
EXTENDS Integers, FiniteSets

Settings == [auth : BOOLEAN, lockout : BOOLEAN, idle : BOOLEAN, at_rest : BOOLEAN, stores : BOOLEAN, key_age : BOOLEAN,
             tls : BOOLEAN, target : BOOLEAN, forbidden : BOOLEAN, alerts : BOOLEAN, sso : BOOLEAN, seed : BOOLEAN,
             enforce : {"off", "monitor", "enforce"}]

signals_from_config(c) ==
    [auth |-> c.auth, lockout |-> c.lockout, idle |-> c.idle, enforce_on |-> c.enforce # "off",
     enforce_block |-> c.enforce = "enforce", at_rest |-> c.at_rest /\ c.stores, key_rotation |-> c.key_age,
     tls |-> c.tls, target |-> c.target, forbidden |-> c.forbidden, alerts |-> c.alerts]

\* How far a control is enforced: 2 enforced, 1 partial, 0 configurable, -1 manual.
tri(full, partial) == IF full THEN 2 ELSE IF partial THEN 1 ELSE 0
on(b) == IF b THEN 2 ELSE 0

\* The controls that count towards a framework's gate, and the ones that do not.
cnsa(s) ==
    [required |-> [sym |-> on(s.at_rest), asym |-> tri(FALSE, s.target), transit |-> tri(s.enforce_block, s.enforce_on),
                   forbid |-> on(s.forbidden)],
     other |-> [inv |-> 2]]

nist_800_53(s) ==
    [required |-> [sc8 |-> on(s.tls), sc12 |-> on(s.key_rotation), sc13 |-> tri(s.forbidden /\ s.target, s.forbidden \/ s.target),
                   sc28 |-> on(s.at_rest), au9 |-> 2, ac6 |-> on(s.auth)],
     other |-> [si4 |-> tri(s.alerts, TRUE)]]

pci_dss(s) ==
    [required |-> [req3 |-> on(s.at_rest), req4 |-> on(s.tls), req8 |-> tri(s.auth /\ s.lockout /\ s.idle, s.auth), req10 |-> 2],
     other |-> [req12 |-> tri(s.target, s.forbidden)]]

fedramp(s) ==
    [required |-> [fr1 |-> -1, fr2 |-> tri(s.target, FALSE), fr3 |-> 2, fr4 |-> tri(s.at_rest /\ s.tls, s.at_rest \/ s.tls),
                   fr5 |-> on(s.auth)],
     other |-> << >>]

all(s) == [cnsa |-> cnsa(s), nist |-> nist_800_53(s), pci |-> pci_dss(s), fedramp |-> fedramp(s)]

\* summarize: the required controls that are not fully enforced, and the gate of get_framework.
gaps(f) == {c \in DOMAIN f.required : f.required[c] # 2}
get_framework(f) == IF gaps(f) = {} THEN 200 ELSE 422

\* The SOC2 controls.
Soc2Controls(c) ==
    [rbac |-> on(c.auth), passwords |-> 2, brute_force |-> on(c.lockout), sso |-> on(c.sso), least_privilege |-> on(c.auth),
     transit |-> on(c.tls), session |-> IF c.idle THEN 2 ELSE 1, access_log |-> on(c.auth), threats |-> 2,
     alerting |-> on(c.alerts), drift |-> 2, changes |-> on(c.auth), integrity |-> 2, availability |-> on(c.seed),
     provisioning |-> -1]

Tally(controls) == [k \in -1..2 |-> Cardinality({c \in DOMAIN controls : controls[c] = k})]
=============================================================================
