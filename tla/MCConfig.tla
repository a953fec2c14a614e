------------------------------- MODULE MCConfig -------------------------------
(***************************************************************************)
(* Values for Config: pages of 4 bytes and parameters of 1 to 3, laid out  *)
(* so that one has its data on the page after its length, one has its data *)
(* on two pages, and some are alone on theirs.                             *)
(***************************************************************************)
EXTENDS Config, TLC

\*              MAGIC  VERSION NODE_ID NODE_NAME two more
MCParamSize == 0 :> 2 @@ 1 :> 1 @@ 2 :> 1 @@ 3 :> 2 @@ 4 :> 3 @@ 5 :> 1

MCByte    == 0 .. 3
MCMagic   == <<2, 1>>
MCVersion == <<1>>
MCNodeId  == <<3>>
MCName    == <<2, 2>>
MCBlank   == {0, 3}
MCZero    == {0}

\* a value on one page, twice, and one on two pages; then the magic itself,
\* and a value longer than its parameter, on two pages
MCSettings      == {<<3, <<1, 3>>>>, <<3, <<3, 1>>>>, <<4, <<1, 2, 3>>>>}
MCMagicSettings == {<<0, <<3, 3>>>>, <<4, <<0, 0, 2, 1>>>>}
MCReadParams    == {3}

=============================================================================
