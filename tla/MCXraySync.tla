----------------------------- MODULE MCXraySync -----------------------------
(* The rules of the repository's xray-config.json, after an older file that *)
(* used xray's balancer: one rule for its API, two backends, one untagged.  *)
EXTENDS XraySync

CONSTANTS a1, a2, a3, api

MCFirstRules == <<Balance, Keep(api), ForcedTo(a2)>>

(* The same file without the rule for the API: nothing is kept of it.       *)
MCBareRules == <<Balance, ForcedTo(a2)>>

MCFirstFiles == {MCFirstRules, MCBareRules}
=============================================================================
