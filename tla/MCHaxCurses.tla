---------------------------- MODULE MCHaxCurses ----------------------------
(* The constants of HaxCurses for TLC.                                     *)
EXTENDS HaxCurses, TLC

MCWidth == "/query" :> 6 @@ " bob" :> 4 @@ " eve" :> 4 @@ " me" :> 3
           @@ "long" :> 24 @@ "host" :> 7 @@ "6667" :> 4

MCMe == <<" me">>
MCKnown == {<<" bob">>}

(* From bob, one that fills a row, and from eve.                           *)
MCPosts == {Privmsg(<<" bob">>, MCMe, <<"long">>),
            Privmsg(<<" eve">>, MCMe, <<" me">>)}
=============================================================================
