----------------------------- MODULE MCIndexer -----------------------------
(* One full and one incremental indexer; a song, a policy, a product, and two
   names, one of two words. *)
EXTENDS Indexer, TLC

CONSTANTS full, inc, m1, vip, s1, a1, a, ab, b

OneFull == {full}
OneIncremental == {inc}
OneSong == {m1}
TwoNames == {ab, b}
WordOf == ab :> a @@ b :> b
OneSource == {s1}
ProductTable == s1 :> {a1}
OnePolicy == {vip}
==============================================================================
