-------------------------- MODULE SubscriptionLinks --------------------------
(***************************************************************************)
(* subscription_fetch.go: what the program makes of the lines of a         *)
(* subscription. A line is a link of one of four schemes, or anything      *)
(* else; of its wording only what decides an outcome is kept.              *)
(***************************************************************************)
EXTENDS Backend, Sequences

(* "url": vless, trojan or ss. user: has an @. addr: the host and positive *)
(* port it names, if any. valid: its JSON, or the whole link as a URL, can *)
(* be parsed (one bad escape in the remark is enough for a URL not to be). *)
Links == [scheme : {"vmess", "url", "other"}, user : BOOLEAN,
          addr : Addrs \cup {NoAddr}, valid : BOOLEAN]

(* extractServerInfo: for a URL, url.Parse's error is ignored and its nil  *)
(* result used.                                                            *)
Panics(link) == link.scheme = "url" /\ link.user /\ ~link.valid

ServerInfo(link) ==
  IF \/ link.scheme = "vmess" /\ link.valid
     \/ link.scheme = "url" /\ link.user /\ link.valid
  THEN link.addr ELSE NoAddr

(* ParseBackendFromSubscription: the first link that names a server.       *)
Names(feed, i) ==
  i \in DOMAIN feed /\ ServerInfo(feed[i]) # NoAddr
  /\ \A j \in 1 .. i - 1 : ServerInfo(feed[j]) = NoAddr

ServerOf(feed) ==
  IF \E i \in DOMAIN feed : Names(feed, i)
  THEN ServerInfo(feed[CHOOSE i \in DOMAIN feed : Names(feed, i)])
  ELSE NoAddr

(* Reading the keys of the first link panics only when looking for the     *)
(* server did (extractRealityParams asks extractServerInfo again).         *)
ServerPanics(feed) ==
  \E i \in DOMAIN feed : Panics(feed[i]) /\ \A j \in 1 .. i - 1 : ServerInfo(feed[j]) = NoAddr
=============================================================================
