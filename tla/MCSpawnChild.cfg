SPECIFICATION Spec
CONSTANTS
    Requests <- MCRequests
    Faults = {"SetProcessName", "SetAppAccessToken", "SpawnSetPreInstalledFlag", "SetEnvInfo",
              "BuildEncaps", "SetAppSandboxProperty", "SetKeepCapabilities", "SetXpmConfig",
              "SetGroups", "SetGid", "SetSeccompFilter", "SetUid", "SetFileDescriptors",
              "SetCapabilities", "SetSelinuxCon", "DupNwebRenderFdsBeforeRunHook",
              "WriteMsgToChild", "execv", "CommandLexer", "dlopen", "execvp"}
    ColdFaults = {"GetMapMem", "SetAppSandboxProperty", "SetUid", "SetSelinuxCon", "DupNwebRenderFdsBeforeRunHook",
                  "CommandLexer", "dlopen", "execvp"}
    MaxFdNumber = 999
    EncapsMax = 2
INVARIANTS AppRunsConfined ToldOnce RunsUnlessFailed
           DescriptorsDelivered
