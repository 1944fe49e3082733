----------------------------- MODULE MCBuilder -----------------------------
\* Instances of Builder for TLC.
EXTENDS BuilderProperties

MCNames == <<"a", "b", "c", "d", "e", "f", "g", "h">>
MCJoinName ==
    "a" :> "a_join" @@ "b" :> "b_join" @@ "c" :> "c_join" @@ "d" :> "d_join" @@
    "e" :> "e_join" @@ "f" :> "f_join" @@ "g" :> "g_join" @@ "h" :> "h_join"
MCVirtual ==
    "a" :> "cond#a" @@ "b" :> "cond#b" @@ "c" :> "cond#c" @@ "d" :> "cond#d" @@
    "e" :> "cond#e" @@ "f" :> "cond#f" @@ "g" :> "cond#g" @@ "h" :> "cond#h"
============================================================================
