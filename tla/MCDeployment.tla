--------------------------- MODULE MCDeployment ---------------------------
(***************************************************************************)
(* Deployment for TLC: every combination of the switches with keys in      *)
(* order, and every combination of key files, alone and through a link or  *)
(* a copy, with the switches off.                                          *)
(***************************************************************************)
EXTENDS Deployment

Key(inode, account, id) ==
    [inode |-> inode, kind |-> "key", account |-> account, id |-> id]

DwdFile == Key("1", "dwd", "k1")
AppFile == Key("2", "app", "k2")

MCFileAt ==
    [dwd |-> DwdFile,
     dwdLink |-> DwdFile,
     dwdCopy |-> Key("3", "dwd", "k1"),
     dwdOtherKey |-> Key("4", "dwd", "k4"),
     sameId |-> Key("5", "", "k1"),
     anonymous |-> Key("6", "", ""),
     anonymousLink |-> Key("6", "", ""),
     app |-> AppFile,
     client |-> [inode |-> "7", kind |-> "json", account |-> "", id |-> ""],
     text |-> [inode |-> "8", kind |-> "text", account |-> "", id |-> ""],
     missing |-> Missing]

\* Secrets that are mounted again.
MCReplacements == {<<"app", Key("9", "dwd", "k1")>>, <<"dwd", Key("9", "dwd2", "k9")>>}

Switches ==
    [http : BOOLEAN, writes : BOOLEAN, sends : BOOLEAN, admin : BOOLEAN,
     powerful : BOOLEAN, appOnly : BOOLEAN, personal : BOOLEAN, audience : {TRUE},
     issuers : {TRUE}, adminSubject : BOOLEAN, dwdPath : {"dwd"}, appPath : {"app"},
     addr : {"loopback"}]

KeyFiles ==
    [http : BOOLEAN, writes : {FALSE}, sends : {FALSE}, admin : {FALSE},
     powerful : {FALSE}, appOnly : {TRUE}, personal : BOOLEAN, audience : {TRUE},
     issuers : {TRUE}, adminSubject : {TRUE},
     dwdPath : {"", "dwd", "anonymous", "client", "text", "missing"},
     appPath : Paths \union {""}, addr : {"network"}]

ServerConfigs ==
    [http : {TRUE}, writes : {FALSE}, sends : {FALSE}, admin : {FALSE},
     powerful : {FALSE}, appOnly : {FALSE}, personal : {FALSE}, audience : BOOLEAN,
     issuers : BOOLEAN, adminSubject : {FALSE}, dwdPath : {"", "dwd", "client"},
     appPath : {""}, addr : {"loopback", "network", "malformed"}]

MCConfigurations == Switches \union KeyFiles \union ServerConfigs
=============================================================================
