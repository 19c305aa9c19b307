--------------------------- MODULE MCUpdaterScript ---------------------------
(* A package that is installed in three stages, one that formats the volume,  *)
(* and short scripts that end in an abort.                                    *)
EXTENDS UpdaterScript

MCPaths   == {"app", "app/A", "app/B", "priv", "priv/A", "bin", "bin/sh", "bin/ls", "prop"}
MCParents == [p \in MCPaths |-> CASE p \in {"app/A", "app/B"} -> {"app"} [] p = "priv/A" -> {"priv"}
                                  [] p \in {"bin/sh", "bin/ls"} -> {"bin"} [] OTHER -> {}]
Dir  == Node("dir", "")
None == Node("none", "")
MCFiles == "app" :> Dir @@ "app/A" :> Node("file", "a") @@ "app/B" :> Node("file", "b")
           @@ "prop" :> Node("file", "build1") @@ "bin/ls" :> Node("file", "ls1") @@ "bin" :> Dir @@ [p \in MCPaths |-> None]
MCParts == [boot |-> "system1", recovery |-> "recovery1", data |-> "userdata"]
MCImages == "system1" :> "system" @@ "system2" :> "system"
            @@ "recovery1" :> "recovery" @@ "recovery2" :> "recovery"
MCPackage == "recovery.img" :> "recovery2" @@ "boot.img" :> "system2" @@ "prop" :> "build2"
MCPackageDirs == "system" :> <<[dest |-> "bin/sh", data |-> "sh2"], [dest |-> "prop", data |-> "build2"]>>
MCProps == "ro.device" :> "gemini"
MCFileProps == "build1" :> ("date" :> "1") @@ "build2" :> ("date" :> "2")
MCNumber == "0" :> 0 @@ "1" :> 1 @@ "2" :> 2 @@ "-1" :> -1 @@ "0644" :> 420

Lit(s) == [fn |-> "literal", name |-> s, argv |-> <<>>]
F(f, as) == [fn |-> f, name |-> f, argv |-> as]
S(f, ss) == F(f, [i \in DOMAIN ss |-> Lit(ss[i])])        \* a call with literal arguments
Do(es) == FoldLeft(LAMBDA x, e : F(";", <<x, e>>), Head(es), Tail(es))
Must(e) == F("assert", <<e>>)
Stage(s) == F("==", <<S("get_stage", <<"misc">>), Lit(s)>>)
Or(e, code) == F("||", <<e, S("abort", <<code>>)>>)

Staged ==
  F("ifelse", <<Stage("2/3"),
    Do(<<Must(S("package_extract_file", <<"recovery.img", "recovery">>)),
         Must(S("set_stage", <<"misc", "3/3">>)), S("reboot_now", <<"misc", "recovery">>)>>),
    F("ifelse", <<Stage("3/3"),
      Do(<<Must(S("mount", <<"f2fs", "EMMC", "system", "/system">>)),
           Or(F("less_than_int", <<S("file_getprop", <<"prop", "date">>), Lit("2")>>), "E4"),
           Must(S("rename", <<"app/A", "priv/A">>)),
           S("delete_recursive", <<"app">>),
           S("symlink", <<"sh", "bin/ls">>),
           S("set_metadata_recursive", <<"bin", "uid", "0", "dmode", "1", "selabel", "s">>),
           S("unmount", <<"/system">>),
           Must(S("package_extract_file", <<"boot.img", "boot">>)),
           S("show_progress", <<"1", "0">>)>>),
      Do(<<F("!=", <<S("getprop", <<"ro.device">>), Lit("other")>>),
           Must(S("package_extract_file", <<"recovery.img", "boot">>)),
           Must(S("set_stage", <<"misc", "2/3">>)), S("reboot_now", <<"misc", "">>)>>)>>)>>)
StagedFiles == [MCFiles EXCEPT !["app"] = None, !["app/A"] = None, !["app/B"] = None, !["priv"] = Dir,
                 !["priv/A"] = Node("file", "a"), !["bin/ls"] = [Node("link", "sh") EXCEPT !.meta = "selabel" :> "s"],
                 !["bin"] = [Dir EXCEPT !.meta = "uid" :> "0" @@ "mode" :> "1" @@ "selabel" :> "s"]]

Formatting ==
  Do(<<F("is_substring", <<Lit("ema"), Lit("gemini")>>), F("!", <<S("is_mounted", <<"/system">>)>>),
       Must(S("format", <<"ext4", "EMMC", "system", "0", "/system">>)),
       F("stdout", <<F("concat", <<Lit("a"), Lit("b")>>)>>), S("sleep", <<"1">>),
       Or(S("mount", <<"ext4", "EMMC", "system", "/system">>), "E1"),
       Or(S("package_extract_dir", <<"system", "/system">>), "E2"),
       F("ifelse", <<F("sha1_check", <<S("read_file", <<"prop">>), Lit("build1"), Lit("build2")>>),
                     S("set_metadata", <<"prop", "mode", "0644", "mode", "x">>)>>),
       S("delete", <<"bin/ls", "prop">>), S("write_value", <<"v", "prop">>),
       F("&&", <<F("greater_than_int", <<Lit("2"), Lit("1")>>), S("tune2fs", <<"-l">>)>>),
       Must(F("==", <<S("run_program", <<"/sbin/x">>), Lit("0")>>)),
       Must(S("wipe_block_device", <<"data", "1">>)),
       S("enable_reboot", <<>>), S("wipe_cache", <<>>), S("set_progress", <<"1">>), S("ui_print", <<"done">>)>>)
FormattedFiles == "bin" :> Dir @@ "bin/sh" :> Node("file", "sh2") @@ "prop" :> Node("file", "v")
                  @@ [p \in MCPaths |-> None]

Ok(e, parts, files) == [root |-> e, ok |-> TRUE, parts |-> parts, files |-> files]
Bad(e) == [root |-> e, ok |-> FALSE, parts |-> MCParts, files |-> MCFiles]
Later == S("package_extract_file", <<"boot.img", "boot">>)
MCScripts ==
  {Ok(Staged, [MCParts EXCEPT !.boot = "system2", !.recovery = "recovery2"], StagedFiles),
   Ok(Formatting, [MCParts EXCEPT !.data = "junk"], FormattedFiles),
   Ok(Or(F("block_image_update", <<Lit("system")>>), "E1001"), MCParts, MCFiles),
   Bad(Do(<<F("ui_print", <<S("rename", <<"app/A">>)>>), Later>>)),
   Bad(Do(<<S("mount", <<"", "EMMC", "system", "/system">>), Later>>)),
   Bad(F("abort", <<F("abort", <<F("sha1_check", <<S("package_extract_file", <<"none">>)>>)>>)>>)),
   Bad(Do(<<F("concat", <<S("package_extract_file", <<"prop">>)>>), Later>>)),
   Bad(Do(<<S("format", <<"vfat", "EMMC", "system", "0", "/system">>), Later>>)),
   Bad(Do(<<S("write_value", <<"x", "prop">>), Must(S("mount", <<"ext4", "EMMC", "system", "/system">>)),
            Must(S("format", <<"ext4", "EMMC", "system", "0", "/system">>)), Later>>)),
   Bad(Do(<<Must(S("format", <<"f2fs", "EMMC", "system", "-1", "/system">>)), Later>>)),
   Bad(Do(<<S("write_value", <<"x", "priv">>), S("rename", <<"app/A", "priv/A">>), Later>>)),
   Bad(Do(<<S("write_value", <<"x", "priv">>), S("symlink", <<"sh", "priv/A">>), Later>>)),
   Bad(Do(<<Must(S("package_extract_file", <<"prop", "bin/sh">>)), Later>>)),
   Bad(Do(<<S("wipe_block_device", <<"data", "x">>), Later>>)),
   Bad(F("||", <<S("ifelse", <<"t">>), Later>>)),
   Bad(Do(<<S("unmount", <<"/system">>), Later>>)),
   Bad(F("ifelse", <<F("&&", <<Lit(""), Later>>), Lit("x"), S("less_than_int", <<"a", "1">>)>>))}
=============================================================================
