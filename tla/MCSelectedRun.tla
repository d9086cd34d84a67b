--------------------------- MODULE MCSelectedRun ---------------------------
(* SelectedRun on small disks and command lines: values for its constants. *)
EXTENDS SelectedRun

MCComponents == {"Telemetry", "UpdateAndProfileUpdater", "Installer2Cache",
                 "GeForceExperienceAndNvidiaApp", "NGX", "AnselCamera"}
MCDefaults == MCComponents \ {"NGX", "AnselCamera"}
MCTexts == STRING

\* Names whose text components.rs claims, and the others on the disks.
Claimed ==
  [NvTelemetry |-> {"Telemetry"}, NvBackend |->
     {"UpdateAndProfileUpdater", "GeForceExperienceAndNvidiaApp"},
   Installer2 |-> {"Installer2Cache"}, NGX |-> {"NGX"}, Ansel |-> {"AnselCamera"}]
  @@ ("NvTelemetry.dll" :> {"Telemetry"})
  @@ ("nvprofileupdaterplugin.dll" :> {"UpdateAndProfileUpdater"})
  @@ ("NVIDIA App" :> {"GeForceExperienceAndNvidiaApp"})
  @@ ("nvngx_dlss.dll" :> {"NGX"})
  @@ ("nv_ansel.inf_amd64_1" :> {"AnselCamera"})
PlainNames == {"Program Files", "ProgramData", "NVIDIA Corporation", "NVIDIA",
               "Installer2b", "CUDA", "Nsight Compute", "DriverStore",
               "FileRepository", "nv_dispi.inf_amd64_1", "nvd3dumx.dll", "Users",
               "alice", "bob", "Public", "Local", "Elsewhere", "Data"}
MCClaims == Claimed @@ [n \in PlainNames |-> {}]

MCSize ==
  ("Program Files" :> 13) @@ ("NVIDIA Corporation" :> 18) @@ ("NvTelemetry" :> 11) @@
  ("NvTelemetry.dll" :> 15) @@ ("nvprofileupdaterplugin.dll" :> 26) @@
  ("Installer2b" :> 11) @@ ("Installer2" :> 10) @@ ("Elsewhere" :> 9) @@
  ("nv_dispi.inf_amd64_1" :> 20) @@ ("nv_ansel.inf_amd64_1" :> 20) @@
  [n \in DOMAIN MCClaims |-> 8]

MCNsight == {"Nsight Compute"}
MCArchMarked == {"nv_dispi.inf_amd64_1", "nv_ansel.inf_amd64_1"}
MCCoreLeaves == {"nvd3dumx.dll"}
MCContinues == {<<"Installer2", "Installer2b">>, <<"NvTelemetry", "NvTelemetry.dll">>}

Corporation == <<"Program Files", "NVIDIA Corporation">>
Data == <<"ProgramData", "NVIDIA">>
Repository == <<"DriverStore", "FileRepository">>
MCPlaces == {Corporation, Data}
MCSuffixes == {<<"Local", "NVIDIA">>}
MCShared == {"Public"}
MCPackages == {"nv_dispi.inf_amd64_1"}

In(d, names) == {Append(d, n) : n \in names}
Disk(dirs, files, links) == [dirs |-> dirs, files |-> files, links |-> links]
NoLinks == [p \in {} |-> p]

EmptyDisk == Disk({}, {}, NoLinks)

\* Candidates in candidates, and beside others whose names begin alike: every
\* disk with some of these.
NestedDirs == In(Corporation, {"Installer2", "Installer2b", "NvTelemetry"})
              \cup In(Append(Corporation, "Installer2"), {"NvTelemetry"})
NestedFiles == {Append(d, "NvTelemetry.dll") : d \in NestedDirs \cup {Corporation}}
NestedDisks ==
  {Disk({Corporation} \cup df[1], df[2], NoLinks) :
     df \in {df \in (SUBSET NestedDirs) \X (SUBSET NestedFiles) :
               \A e \in df[1] \cup df[2] : Front(e) \in df[1] \cup {Corporation}}}
NestedDisk == Disk({Corporation} \cup NestedDirs, NestedFiles, NoLinks)

\* What is pruned and what is spared: NGX, developer tools, driver packages.
SparedDisk ==
  Disk({Data, Append(Data, "NGX"), Corporation}
         \cup In(Corporation, {"CUDA", "Nsight Compute"})
         \cup In(Repository, {"nv_dispi.inf_amd64_1", "nv_ansel.inf_amd64_1"}),
       In(Append(Data, "NGX"), {"nvngx_dlss.dll"})
         \cup In(Append(Corporation, "CUDA"), {"NvTelemetry.dll"})
         \cup In(Append(Corporation, "Nsight Compute"), {"NvTelemetry.dll"})
         \cup In(Append(Repository, "nv_dispi.inf_amd64_1"),
                 {"nvd3dumx.dll", "NvTelemetry.dll"}), NoLinks)

\* Links in a root: one out of it, one that matches and leads to a folder of
\* the root, where a file lies that matches as well.
LinkedDisk ==
  Disk({Corporation, Append(Corporation, "Data"), <<"Elsewhere">>},
       In(Append(Corporation, "Data"), {"NvTelemetry.dll", "nvd3dumx.dll"})
         \cup In(<<"Elsewhere">>, {"NvTelemetry.dll"}),
       (Append(Corporation, "Local") :> <<"Elsewhere">>)
         @@ (Append(Corporation, "NvTelemetry") :> Append(Corporation, "Data")))

\* Two profiles that share a folder, and one that is no user's.
ProfilesDisk ==
  LET shared == <<"Elsewhere", "NVIDIA">> IN
  Disk(In(<<"Users">>, {"alice", "bob", "Public"})
         \cup {<<"Elsewhere">>, shared, Append(shared, "NvTelemetry")}
         \cup {<<"Users", "Public", "Local">>, <<"Users", "Public", "Local", "NVIDIA">>},
       In(shared, {"Ansel"}) \cup In(Append(shared, "NvTelemetry"), {"NvTelemetry.dll"})
         \cup {<<"Users", "Public", "Local", "NVIDIA", "NvTelemetry">>},
       (<<"Users", "alice", "Local">> :> <<"Elsewhere">>)
         @@ (<<"Users", "bob", "Local">> :> <<"Elsewhere">>))

\* A folder two components claim.
SharedNameDisk == Disk({Corporation} \cup In(Corporation, {"NvBackend"}), {}, NoLinks)

World(line, files, inputs, faulty) ==
  [args |-> line, disk |-> files, admin |-> "limited" \notin faulty, inputs |-> inputs,
   faults |-> faulty]

Execute == <<Flag("--execute")>>
Scans ==
  {World(<<>>, NestedDisk, {"kill", "Installer2Cache", "Telemetry"}, {"abort"}),
   World(Execute, NestedDisk, {}, {"list"}),
   World(Execute \o <<Flag("--include-ngx")>>, SparedDisk, {}, {"list"}),
   World(<<Flag("--dry-run")>>, SparedDisk, {}, {"abort"}),
   World(Execute \o <<Flag("--include-ngx")>>, SparedDisk, {}, {"silent", "abort"}),
   World(Execute \o <<Flag("--include-ansel"), ComponentArg("NGX", "on")>>, LinkedDisk,
         {}, {"list"}),
   World(Execute \o <<Flag("--include-ansel")>>, LinkedDisk, {}, {"silent"}),
   World(Execute \o <<Flag("--include-ansel")>>, ProfilesDisk, {},
         {"list", "silent", "abort"}),
   World(Execute \o <<Flag("--allow-admin-fallback"), Flag("--include-ngx"),
                      Flag("--include-ansel")>>, SharedNameDisk, {}, {})}

\* Selections that differ from the defaults in every way they can.
Wizards ==
  {World(<<>>, SharedNameDisk,
         {"execute", "preserve", "disableTasks", "NGX", "UpdateAndProfileUpdater"},
         {"limited", "declined", "worker"}),
   World(<<Flag("--menu"), Flag("--kill-lockers"), ComponentArg("Telemetry", "off")>>,
         SharedNameDisk, {"execute", "disableServices", "deleteTasks", "schedule"}, {})}

Everything ==
  LET said == SelectSeq(Forwarded, LAMBDA f : f # "--allow-admin-fallback")
  IN [i \in DOMAIN said |-> Flag(said[i])]
Lines ==
  {Execute \o Everything \o <<WaitArg(5), ComponentArg("NGX", "off")>>,
   Execute \o <<Flag("--include-ngx"), WaitArg(9000), ComponentArg("NGX", "off"),
                ComponentArg("Telemetry", "off"), ComponentArg("Telemetry", "on")>>,
   Execute \o <<Flag("--no-ti-relaunch")>>,
   Execute \o Option("--log-dir", "folder") \o <<Flag("--dry-run")>>,
   Execute \o Option("--status-file", "file"),
   <<Flag("--help")>> \o Execute,
   \* In none of these is every word understood.
   Execute \o <<Flag("--kill-locker")>>,
   <<Flag("--log-dir")>> \o Execute \o Execute,
   Execute \o <<Flag("--log-dir"), Flag("--dry-run")>>,
   Execute \o <<Flag("--status-file")>>,
   Execute \o <<Text("all")>>,
   Execute \o <<ComponentArg("Telemetri", "off")>>,
   Execute \o <<ComponentArg("Telemetry", "maybe")>>,
   Execute \o <<Flag("--log-file"), ComponentArg("Telemetry", "off")>>,
   Execute \o <<[WaitArg(0) EXCEPT !.value = "soon"]>>,
   <<Flag("--kill-locker")>>}

MCWorlds ==
  Scans \cup Wizards
    \cup {World(Execute, d, {}, {"abort"}) : d \in NestedDisks}
    \cup {World(l, EmptyDisk, {}, {"worker"}) : l \in Lines}

\* A bare launch as it stands, on the disk with the shared name.
BareWorlds == {World(<<>>, SharedNameDisk, {}, {})}
=============================================================================
