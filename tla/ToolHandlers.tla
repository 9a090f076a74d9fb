---------------------------- MODULE ToolHandlers ----------------------------
(***************************************************************************)
(* What the workspace tools do.  A tool's handler                          *)
(* (packages/mcp-core/src/mcp-workspace-tools.ts) calls one method of the  *)
(* workspace executor within a budget of time, its own or the caller's;    *)
(* a batch handler calls it once for each item.  The method checks a       *)
(* permission and has an effect: LocalAgent's                              *)
(* (services/workspace-agent/src/local-agent.ts) the permission of the     *)
(* workspace's profile, SshWorkspaceExecutor's                             *)
(* (services/workspace-agent/src/remote/ssh-workspace-executor.ts) only    *)
(* whether writes and shells are enabled.                                  *)
(***************************************************************************)
Handler(method, budget) == [method |-> method, budget |-> budget]

list_workspaces_handler == Handler("listWorkspaces", "quick")
list_workspace_roots_handler == Handler("listWorkspaceRoots", "quick")
list_files_handler == Handler("listFiles", "quick")
read_file_handler == Handler("readFile", "quick")
read_files_handler == Handler("readFile", "quick")
write_file_handler == Handler("writeFile", "quick")
patch_file_handler == Handler("patchFile", "quick")
run_workspace_validation_handler == Handler("runValidation", "input")
run_command_handler == Handler("runCommand", "input")
start_background_task_handler == Handler("startBackgroundTask", "quick")
get_background_task_handler == Handler("getBackgroundTask", "quick")
get_background_tasks_handler == Handler("getBackgroundTask", "quick")
wait_background_task_handler == Handler("waitBackgroundTask", "input")
list_background_tasks_handler == Handler("listBackgroundTasks", "quick")
cancel_background_task_handler == Handler("cancelBackgroundTask", "quick")
read_background_task_logs_handler == Handler("readBackgroundTaskLogs", "quick")
write_background_task_stdin_handler == Handler("writeBackgroundTaskStdin", "quick")
read_background_task_output_handler == Handler("readBackgroundTaskOutput", "quick")
search_files_handler == Handler("searchFiles", "quick")
search_files_batch_handler == Handler("searchFiles", "quick")
inspect_workspace_git_handler == Handler("inspectGit", "input")
get_workspace_context_handler == Handler("getWorkspaceContext", "quick")

Handlers ==
    [list_workspaces |-> list_workspaces_handler,
     list_workspace_roots |-> list_workspace_roots_handler,
     list_files |-> list_files_handler,
     read_file |-> read_file_handler,
     read_files |-> read_files_handler,
     write_file |-> write_file_handler,
     patch_file |-> patch_file_handler,
     run_workspace_validation |-> run_workspace_validation_handler,
     run_command |-> run_command_handler,
     start_background_task |-> start_background_task_handler,
     get_background_task |-> get_background_task_handler,
     get_background_tasks |-> get_background_tasks_handler,
     wait_background_task |-> wait_background_task_handler,
     list_background_tasks |-> list_background_tasks_handler,
     cancel_background_task |-> cancel_background_task_handler,
     read_background_task_logs |-> read_background_task_logs_handler,
     write_background_task_stdin |-> write_background_task_stdin_handler,
     read_background_task_output |-> read_background_task_output_handler,
     search_files |-> search_files_handler,
     search_files_batch |-> search_files_batch_handler,
     inspect_workspace_git |-> inspect_workspace_git_handler,
     get_workspace_context |-> get_workspace_context_handler]

Method(permission, effect) == [permission |-> permission, effect |-> effect]

listWorkspaces == Method("any", "none")
listWorkspaceRoots == Method("list", "none")
listFiles == Method("list", "none")
readFile == Method("read", "none")
writeFile == Method("write", "replace")
patchFile == Method("write", "patch")
runValidation == Method("shell", "none")
runCommand == Method("shell", "run")
startBackgroundTask == Method("shell", "start")
getBackgroundTask == Method("read", "none")
waitBackgroundTask == Method("read", "none")
listBackgroundTasks == Method("read", "none")
cancelBackgroundTask == Method("shell", "cancel")
readBackgroundTaskLogs == Method("read", "none")
writeBackgroundTaskStdin == Method("shell", "stdin")
readBackgroundTaskOutput == Method("read", "none")
searchFiles == Method("search", "none")
inspectGit == Method("diff", "none")
getWorkspaceContext == Method("list", "none")

LocalMethods ==
    [listWorkspaces |-> listWorkspaces,
     listWorkspaceRoots |-> listWorkspaceRoots,
     listFiles |-> listFiles,
     readFile |-> readFile,
     writeFile |-> writeFile,
     patchFile |-> patchFile,
     runValidation |-> runValidation,
     runCommand |-> runCommand,
     startBackgroundTask |-> startBackgroundTask,
     getBackgroundTask |-> getBackgroundTask,
     waitBackgroundTask |-> waitBackgroundTask,
     listBackgroundTasks |-> listBackgroundTasks,
     cancelBackgroundTask |-> cancelBackgroundTask,
     readBackgroundTaskLogs |-> readBackgroundTaskLogs,
     writeBackgroundTaskStdin |-> writeBackgroundTaskStdin,
     readBackgroundTaskOutput |-> readBackgroundTaskOutput,
     searchFiles |-> searchFiles,
     inspectGit |-> inspectGit,
     getWorkspaceContext |-> getWorkspaceContext]

sshListWorkspaces == Method("any", "none")
sshListWorkspaceRoots == Method("any", "none")
sshListFiles == Method("any", "none")
sshReadFile == Method("any", "none")
sshWriteFile == Method("write", "replace")
sshPatchFile == Method("write", "patch")
sshRunValidation == Method("any", "none")
sshRunCommand == Method("shell", "run")
sshStartBackgroundTask == Method("shell", "start")
sshGetBackgroundTask == Method("any", "none")
sshWaitBackgroundTask == Method("any", "none")
sshListBackgroundTasks == Method("any", "none")
sshCancelBackgroundTask == Method("any", "cancel")
sshReadBackgroundTaskLogs == Method("any", "none")
sshWriteBackgroundTaskStdin == Method("unsupported", "stdin")
sshReadBackgroundTaskOutput == Method("any", "none")
sshSearchFiles == Method("any", "none")
sshInspectGit == Method("any", "none")
sshGetWorkspaceContext == Method("any", "none")

SshMethods ==
    [listWorkspaces |-> sshListWorkspaces,
     listWorkspaceRoots |-> sshListWorkspaceRoots,
     listFiles |-> sshListFiles,
     readFile |-> sshReadFile,
     writeFile |-> sshWriteFile,
     patchFile |-> sshPatchFile,
     runValidation |-> sshRunValidation,
     runCommand |-> sshRunCommand,
     startBackgroundTask |-> sshStartBackgroundTask,
     getBackgroundTask |-> sshGetBackgroundTask,
     waitBackgroundTask |-> sshWaitBackgroundTask,
     listBackgroundTasks |-> sshListBackgroundTasks,
     cancelBackgroundTask |-> sshCancelBackgroundTask,
     readBackgroundTaskLogs |-> sshReadBackgroundTaskLogs,
     writeBackgroundTaskStdin |-> sshWriteBackgroundTaskStdin,
     readBackgroundTaskOutput |-> sshReadBackgroundTaskOutput,
     searchFiles |-> sshSearchFiles,
     inspectGit |-> sshInspectGit,
     getWorkspaceContext |-> sshGetWorkspaceContext]

\* The profiles that a permission is granted to (permission-profile.ts).
ReadersBut(p) == IF p \in {"list", "search"} THEN {"builder-review"} ELSE {}

Profiles == {"planning-readonly", "planning-handoff", "builder-review", "restricted-area",
             "full-repo-readonly", "full-repo-write"}

assertPermission(profile, permission) ==
    \/ permission = "any"
    \/ permission \in {"list", "read", "search", "diff"} /\ profile \notin ReadersBut(permission)
    \/ permission \in {"write", "shell"} /\ profile = "full-repo-write"
=============================================================================
