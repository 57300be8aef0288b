-------------------------- MODULE MCAsyncContext --------------------------
EXTENDS AsyncContext, TLC

CONSTANTS c1, c2, c3, c4, c5, news

TwoGets == {c1, c2}
GetKinds == c1 :> "regular" @@ c2 :> "regular"
NoNames == c1 :> {} @@ c2 :> {}

Five == {c1, c2, c3, c4, c5}
FiveKinds == c1 :> "regular" @@ c2 :> "regular" @@ c3 :> "subscribe" @@ c4 :> "unsubscribe" @@ c5 :> "monitor"
FiveNames == c1 :> {} @@ c2 :> {} @@ c3 :> {news} @@ c4 :> {news} @@ c5 :> {}
News == {news}
SomeAdapters == {LibeventAdapter, LibuvAdapter}
AllAdapters == {AeAdapter, LibevAdapter, LibeventAdapter, LibuvAdapter, GlibAdapter}
==============================================================================
