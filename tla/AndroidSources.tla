--------------------------- MODULE AndroidSources ---------------------------
(***************************************************************************)
(* The preparation scripts of the Android candidate: what each one reads,  *)
(* rewrites and creates in the checkout of the client.  Files that the     *)
(* same scripts treat alike carry one name ("gradle" stands for the        *)
(* application's build.gradle and gradle.properties).                      *)
(*                                                                         *)
(*   writes   the files in the order the script writes them                *)
(*   creates  those of them that must not exist before                     *)
(*   reads    further files whose bytes the script verifies                *)
(*   tree     what git status may report: "any", "clean" (nothing) or      *)
(*            "offline" (only what the baseline rewrites)                  *)
(***************************************************************************)
EXTENDS Sequences, SequencesExt

Tool(writes, creates, reads, tree) ==
    [writes |-> writes, creates |-> creates, reads |-> reads, tree |-> tree]

(* The baseline copies its inputs to a backup directory, which must be new,*)
(* before it rewrites the first.                                           *)
BaselinePaths == <<"settings.gradle", "gradle", "BuildVars">>
AndroidBaseline ==
    Tool(<<"OfflineBackup">> \o BaselinePaths, {"OfflineBackup"}, {}, "clean")

(* The online preparation computes what the baseline must have left from   *)
(* the baseline's backup, and compares every path with it.                 *)
OnlineInputs == {"OfflineBackup", "settings.gradle"}
AndroidOnline ==
    Tool(<<"OnlineBackup", "BuildVars", "gradle">>, {"OnlineBackup"}, OnlineInputs, "offline")

(* Capacity, the binding of notifications to a login, its receivers.       *)
AccountFiles == <<"UserConfig", "Receivers", "SendMessagesHelper", "LaunchActivity">>
AndroidAccounts ==
    Tool(AccountFiles \o <<"AccountBinding">>, {"AccountBinding"}, {}, "any")

NotesFiles == <<"UserConfig", "LaunchActivity", "ChatActivity">>
NotesAdded == <<"NotesSources", "CapyVault">>
AndroidNotes == Tool(NotesFiles \o NotesAdded, {"NotesSources", "CapyVault"}, {}, "any")

BrandFiles == <<"Intro", "LoginActivity", "LauncherIcons">>
AndroidBrand == Tool(BrandFiles \o <<"BrandResources">>, {"BrandResources"}, {}, "any")

CandidateFiles == <<"gradle", "ReleaseManifests">>
AndroidCandidate == Tool(CandidateFiles, {}, {}, "any")

AndroidFolders   == Tool(<<"FilterCreateActivity">>, {}, {}, "any")
AndroidCallbacks == Tool(<<"MessagesController">>, {}, {}, "any")

ReadFiles ==
    <<"ConnectionsManager", "MessagesController", "UserConfig", "ChatActivity", "CapyVault">>
AndroidReadMode == Tool(ReadFiles \o <<"ReadSources">>, {"ReadSources"}, {}, "any")
AndroidSecretReads == Tool(<<"SecretChatHelper">>, {}, {}, "any")

AndroidAppearance ==
    Tool(<<"Theme", "Intro", "ChatActivity", "Themes">>, {"Themes"}, {}, "any")

ArchiveFiles == <<"ArchiveHosts", "ChatActivity", "UserConfig", "CapyVault">>
AndroidArchive == Tool(ArchiveFiles \o <<"ArchiveSources">>, {"ArchiveSources"}, {}, "any")

VoiceFiles == <<"ChatActivity", "CapyVault">>
AndroidVoice == Tool(VoiceFiles \o <<"VoiceSources">>, {"VoiceSources"}, {}, "any")

(* Builds the speech engine in a new directory and installs its library.   *)
AndroidEngine ==
    Tool(<<"EngineWork", "VoiceLibrary">>, {"EngineWork", "VoiceLibrary"}, {}, "any")

ConnectionFiles ==
    <<"ConnectionsManager", "ChatActivity", "LoginActivity", "CapyVault", "Proguard">>
AndroidConnectionHosts ==
    Tool(ConnectionFiles \o <<"ConnectionSources">>, {"ConnectionSources"}, {}, "any")

(* Prepares the transport's sources in a new directory.                    *)
TransportSources == <<"TransportWork">>

(* Builds the transport there, verifies its sources again, and installs    *)
(* the library with the notices of what it links.                          *)
AndroidLibrary ==
    Tool(TransportSources \o <<"ConnectionLibrary", "ConnectionNotices">>,
         {"TransportWork", "ConnectionLibrary", "ConnectionNotices"}, {}, "any")

CaptureFiles ==
    <<"ChatActivity", "CapyVault", "ConnectionsManager", "SendMessagesHelper", "Manifest">>
AndroidCapture == Tool(CaptureFiles \o <<"CaptureSources">>, {"CaptureSources"}, {}, "any")

(* Directories of the runner: git does not see them.                       *)
AndroidOutside == {"EngineWork", "TransportWork"}

AndroidTools ==
    [a_baseline |-> AndroidBaseline, a_online |-> AndroidOnline,
     a_accounts |-> AndroidAccounts, a_notes |-> AndroidNotes, a_brand |-> AndroidBrand,
     a_candidate |-> AndroidCandidate, a_folders |-> AndroidFolders,
     a_callbacks |-> AndroidCallbacks, a_read |-> AndroidReadMode,
     a_secret |-> AndroidSecretReads, a_appearance |-> AndroidAppearance,
     a_archive |-> AndroidArchive, a_voice |-> AndroidVoice, a_engine |-> AndroidEngine,
     a_connection |-> AndroidConnectionHosts, a_library |-> AndroidLibrary,
     a_capture |-> AndroidCapture]

-----------------------------------------------------------------------------
(* The workflow.  Most scripts run twice, the second time with --check;    *)
(* the online preparation is tried before it is applied; the two that      *)
(* build a library have no check.                                          *)
Step(act, tool)  == <<[act |-> act, tool |-> tool]>>
Prepared(tool)   == Step("prepare", tool) \o Step("check", tool)

AndroidWorkflow ==
    Step("inputs", "none") \o Step("secret", "none")
    \o Step("prepare", "a_baseline") \o Step("try", "a_online") \o Step("prepare", "a_online")
    \o FlattenSeq(<<Prepared("a_accounts"), Prepared("a_notes"), Prepared("a_brand"),
         Prepared("a_candidate"), Prepared("a_folders"), Prepared("a_callbacks"),
         Prepared("a_read"), Prepared("a_secret"), Prepared("a_appearance"),
         Prepared("a_archive"), Prepared("a_voice")>>)
    \o Step("prepare", "a_engine") \o Prepared("a_connection") \o Step("prepare", "a_library")
    \o Prepared("a_capture")
    \o Step("build", "none") \o Step("collect", "none") \o Step("upload", "none")
=============================================================================
