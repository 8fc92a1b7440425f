--------------------------- MODULE WindowsSources ---------------------------
(***************************************************************************)
(* The preparation scripts of the Windows candidate, in the notation of    *)
(* AndroidSources.  The identity preparation looks at the whole checkout:  *)
(* it starts from a clean one, and its check accepts no modification but   *)
(* its own ("own").                                                        *)
(***************************************************************************)
EXTENDS AndroidSources

IdentityFiles == <<"Identity", "application.cpp">>
WindowsOnline == Tool(IdentityFiles, {}, {}, "own")

DesktopAccountFiles == <<"main_domain.cpp", "AccountLimits">>
WindowsAccounts == Tool(DesktopAccountFiles, {}, {}, "any")

DesktopNotesFiles ==
    <<"CMakeLists", "application.h", "application.cpp", "main_account.h", "main_account.cpp",
      "main_domain.cpp", "window_peer_menu.cpp", "NotesHosts", "top_bar.h", "top_bar.cpp">>
DesktopNotesAdded == <<"VaultSources">>
WindowsNotes == Tool(DesktopNotesFiles \o DesktopNotesAdded, {"VaultSources"}, {}, "any")

WindowsFolders   == Tool(<<"remove_manager.cpp">>, {}, {}, "any")
WindowsReconcile == Tool(<<"ReconcileHosts">>, {}, {}, "any")
WindowsMutations == Tool(<<"MutationHosts">>, {}, {}, "any")
WindowsBulk      == Tool(<<"settings_folders.cpp">>, {}, {}, "any")

DesktopBrandFiles == <<"intro_step.cpp", "BrandHosts">>
WindowsBrand == Tool(DesktopBrandFiles, {}, {}, "any")

WindowsAppearance == Tool(<<"ThemeHosts", "intro_step.cpp", "top_bar.cpp", "top_bar.h">>, {}, {}, "any")

DesktopReadFiles ==
    <<"CMakeLists", "ReadHosts", "session_settings", "main_account.cpp",
      "window_peer_menu.cpp", "top_bar.cpp">>
WindowsReadMode == Tool(DesktopReadFiles \o <<"ReadPolicy">>, {"ReadPolicy"}, {}, "any")

(* Downloads the pinned source of the speech engine to a new directory of  *)
(* the runner between the validation and the first write.                  *)
DesktopVoiceFiles == <<"CMakeLists", "application.h", "application.cpp", "context_menu.cpp">>
SpeechSource == <<"WhisperSource">>
WindowsVoice ==
    Tool(SpeechSource \o DesktopVoiceFiles \o <<"VoiceWorker">>,
         {"WhisperSource", "VoiceWorker"}, {}, "any")

DesktopArchiveFiles ==
    <<"CMakeLists", "application.h", "application.cpp", "main_account.h", "main_account.cpp",
      "main_domain.cpp", "session_settings", "window_peer_menu.cpp", "top_bar.cpp",
      "MediaHosts">>
WindowsArchive == Tool(DesktopArchiveFiles \o <<"ArchiveWorker">>, {"ArchiveWorker"}, {}, "any")

DesktopConnectionFiles ==
    <<"CMakeLists", "application.h", "application.cpp", "SessionHosts", "window_peer_menu.cpp">>
WindowsConnectionHosts ==
    Tool(DesktopConnectionFiles \o <<"ConnectionWorker">>, {"ConnectionWorker"}, {}, "any")

WindowsStartupFix == Tool(<<"CMakeLists">>, {}, {}, "any")

(* Verifies the sources of the transport, builds it and runs its probes in *)
(* a new directory; the build of the client is given its path and hash.    *)
WindowsLibrary == Tool(<<"ReleaseWork">>, {"ReleaseWork"}, {}, "any")

WindowsDependencies == Tool(<<"prepare.py">>, {}, {}, "any")

WindowsOutside == {"WhisperSource", "ReleaseWork"}

WindowsTools ==
    [w_online |-> WindowsOnline, w_accounts |-> WindowsAccounts, w_notes |-> WindowsNotes,
     w_folders |-> WindowsFolders, w_reconcile |-> WindowsReconcile,
     w_mutations |-> WindowsMutations, w_bulk |-> WindowsBulk, w_brand |-> WindowsBrand,
     w_appearance |-> WindowsAppearance, w_read |-> WindowsReadMode, w_voice |-> WindowsVoice,
     w_archive |-> WindowsArchive, w_connection |-> WindowsConnectionHosts,
     w_startup |-> WindowsStartupFix, w_library |-> WindowsLibrary,
     w_dependencies |-> WindowsDependencies]

-----------------------------------------------------------------------------
WindowsWorkflow ==
    Step("inputs", "none") \o Step("clean", "none")
    \o FlattenSeq(<<Prepared("w_online"), Prepared("w_accounts"), Prepared("w_notes"),
         Prepared("w_folders"), Prepared("w_reconcile"), Prepared("w_mutations"),
         Prepared("w_bulk"), Prepared("w_brand"), Prepared("w_appearance"),
         Prepared("w_read"), Prepared("w_voice"), Prepared("w_archive"),
         Prepared("w_connection"), Prepared("w_startup")>>)
    \o Step("prepare", "w_library") \o Step("secret", "none") \o Prepared("w_dependencies")
    \o Step("build", "none") \o Step("collect", "none") \o Step("upload", "none")
=============================================================================
