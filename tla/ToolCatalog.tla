----------------------------- MODULE ToolCatalog -----------------------------
(***************************************************************************)
(* The tools that the edge announces to a client, from the generated       *)
(* manifest services/mcp-edge-gateway/src/generated/mcp-tool-manifest.ts:  *)
(* for each tool its hints, the inputs that it requires and the ones that  *)
(* it accepts besides (every input schema is strict), and its answers by   *)
(* status with the fields that a later call can be built from.  Fields are *)
(* named by the schema, qualified where one name stands for two things     *)
(* (task.id, workspaces.id, pull.headSha, frames.path); those that no call *)
(* takes as an input are left out, and so is the form of the values.       *)
(***************************************************************************)
Tool(hints, needs, accepts) == [hints |-> hints, needs |-> needs, accepts |-> accepts]

Answer(status, gives) == [status |-> status, gives |-> gives]

\* A step of one of the tools that take a list of steps.
Step(action, needs, accepts) == [action |-> action, needs |-> needs, accepts |-> accepts]

list_workspaces == Tool({"readOnly", "idempotent"}, {}, {})
list_workspaces_answers == {Answer("ok", {"workspaces.id"})}

list_workspace_roots == Tool({"readOnly", "idempotent"}, {"workspaceId"}, {})
list_workspace_roots_answers == {Answer("ok", {"roots"})}

list_files == Tool({"readOnly", "idempotent"}, {"workspaceId"}, {"glob", "root"})
list_files_answers == {Answer("ok", {"files"})}

read_file == Tool({"readOnly", "idempotent"}, {"workspaceId", "path"}, {"endLine", "startLine"})
read_file_answers == {Answer("ok", {"path", "sha256"})}

read_files == Tool({"readOnly", "idempotent"}, {"workspaceId", "items"}, {})
read_files_answers == {Answer("ok", {"path", "sha256"})}

write_file == Tool({"destructive", "idempotent"}, {"workspaceId", "path", "content"}, {})
write_file_answers == {Answer("ok", {"path"})}

patch_file == Tool({"idempotent"}, {"workspaceId", "path", "expectedSha256", "replacements"},
    {"dryRun"})
patch_file_answers == {Answer("ok", {"path", "sha256After"})}

run_workspace_validation == Tool({"readOnly", "idempotent"}, {"workspaceId", "validation"},
    {"maxFindings", "paths", "root", "scope", "timeoutMs"})
run_workspace_validation_answers == {Answer("ok", {"path"})}

run_command == Tool({"destructive"}, {"workspaceId", "command", "shell"}, {"confirmationId",
    "cwd", "timeoutMs"})
run_command_answers == {Answer("executed", {}), Answer("confirmation_required",
    {"confirmationId"}), Answer("background_task_started", {"task.id"})}

start_background_task == Tool({"destructive"}, {"workspaceId", "operation", "command", "shell"},
    {"confirmationId", "cwd", "interactive", "timeoutMs"})
start_background_task_answers == {Answer("background_task_started", {"task.id"}),
    Answer("confirmation_required", {"confirmationId"})}

get_background_task == Tool({"readOnly", "idempotent"}, {"workspaceId", "id"}, {})
get_background_task_answers == {Answer("ok", {"task.id"})}

get_background_tasks == Tool({"readOnly", "idempotent"}, {"workspaceId", "ids"}, {})
get_background_tasks_answers == {Answer("ok", {"task.id"})}

wait_background_task == Tool({"readOnly", "idempotent"}, {"workspaceId", "id"}, {"maxBytes",
    "timeoutMs"})
wait_background_task_answers == {Answer("ok", {"task.id"})}

list_background_tasks == Tool({"readOnly", "idempotent"}, {"workspaceId"}, {"state"})
list_background_tasks_answers == {Answer("ok", {"task.id"})}

cancel_background_task == Tool({"destructive", "idempotent"}, {"workspaceId", "id"}, {})
cancel_background_task_answers == {Answer("ok", {"task.id"})}

read_background_task_logs == Tool({"readOnly", "idempotent"}, {"workspaceId", "id"}, {"maxBytes"})
read_background_task_logs_answers == {Answer("ok", {"logs.id"})}

write_background_task_stdin == Tool({"destructive"}, {"workspaceId", "id"}, {"close", "input"})
write_background_task_stdin_answers == {Answer("ok", {"task.id"})}

read_background_task_output == Tool({"readOnly", "idempotent"}, {"workspaceId", "id"},
    {"maxBytes", "stderrOffset", "stdoutOffset"})
read_background_task_output_answers == {Answer("ok", {"task.id", "nextOffset"})}

search_files == Tool({"readOnly", "idempotent"}, {"workspaceId", "query"}, {"caseSensitive",
    "glob", "root"})
search_files_answers == {Answer("ok", {"path"})}

search_files_batch == Tool({"readOnly", "idempotent"}, {"workspaceId", "items"}, {})
search_files_batch_answers == {Answer("ok", {"path"})}

inspect_workspace_git == Tool({"readOnly", "idempotent"}, {"workspaceId"}, {"diffMode",
    "maxDiffBytes", "paths", "root", "timeoutMs"})
inspect_workspace_git_answers == {Answer("ok", {"branch", "path"})}

get_workspace_context == Tool({"readOnly", "idempotent"}, {"workspaceId"}, {"root"})
get_workspace_context_answers == {Answer("ok", {"currentBranch", "path"})}

git_create_branch == Tool({}, {"workspaceId", "branch", "expectedHeadSha"}, {"root"})
git_create_branch_answers == {Answer("ok", {"branch", "headSha"})}

git_stage_paths == Tool({"idempotent"}, {"workspaceId", "paths"}, {"root"})
\* Mutant: staging no longer tells the tree that a commit must name.
StageKeepsTheTree == {Answer("ok", {"headSha"})}

git_stage_paths_answers == {Answer("ok", {"headSha", "indexTreeSha"})}

git_unstage_paths == Tool({"idempotent"}, {"workspaceId", "paths", "expectedHeadSha",
    "expectedIndexTreeSha"}, {"root"})
git_unstage_paths_answers == {Answer("ok", {"headSha", "indexTreeSha"})}

git_commit == Tool({}, {"workspaceId", "message", "expectedHeadSha", "expectedIndexTreeSha"},
    {"root"})
git_commit_answers == {Answer("ok", {"branch", "commitSha"})}

git_merge_branch == Tool({"idempotent"}, {"workspaceId", "sourceBranch",
    "expectedTargetHeadSha", "expectedSourceHeadSha"}, {"root"})
git_merge_branch_answers == {Answer("ok", {"branch", "headSha", "sourceHeadSha"})}

git_push_branch == Tool({"destructive", "idempotent"}, {"workspaceId", "branch",
    "expectedLocalSha"}, {"confirmationId", "expectedRemoteSha", "remote", "root"})
git_push_branch_answers == {Answer("completed", {"branch", "localSha", "remoteSha"}),
    Answer("confirmation_required", {"confirmationId"})}

github_get_repository == Tool({"readOnly", "idempotent", "openWorld"}, {"workspaceId", "owner",
    "repository"}, {"root"})
github_get_repository_answers == {Answer("ok", {"defaultBranch"})}

github_create_repository == Tool({"destructive", "idempotent", "openWorld"}, {"workspaceId",
    "owner", "name", "visibility"}, {"confirmationId", "description"})
github_create_repository_answers == {Answer("completed", {"defaultBranch"}),
    Answer("confirmation_required", {"confirmationId"})}

github_get_pull_request == Tool({"readOnly", "idempotent", "openWorld"}, {"workspaceId",
    "owner", "repository", "pullNumber"}, {"root"})
github_get_pull_request_answers == {Answer("ok", {"number", "pull.headSha"})}

github_create_pull_request == Tool({"destructive", "idempotent", "openWorld"}, {"workspaceId",
    "owner", "repository", "title", "head", "base"}, {"body", "confirmationId", "draft",
    "root"})
github_create_pull_request_answers == {Answer("completed", {"number", "pull.headSha"}),
    Answer("confirmation_required", {"confirmationId"})}

github_merge_pull_request == Tool({"destructive", "idempotent", "openWorld"}, {"workspaceId",
    "owner", "repository", "pullNumber", "expectedPullRequestHeadSha", "mergeMethod"},
    {"confirmationId", "root"})
github_merge_pull_request_answers == {Answer("completed", {"number"}),
    Answer("confirmation_required", {"confirmationId"})}

browser_status == Tool({"readOnly", "idempotent", "openWorld"}, {}, {})
browser_status_answers == {Answer("ok", {})}

browser_connect == Tool({"openWorld"}, {}, {})
browser_connect_answers == {Answer("ok", {})}

browser_tabs == Tool({"readOnly", "idempotent", "openWorld"}, {}, {"taskId"})
browser_tabs_answers == {Answer("ok", {"tabId", "taskId"})}

browser_open == Tool({"openWorld"}, {}, {"knownRevision", "protected", "purpose", "reusable",
    "sticky", "taskId", "url"})
browser_open_answers == {Answer("ok", {"tabId", "taskId", "revision"})}

browser_open_authorized_site == Tool({"openWorld"}, {"siteId", "purpose"}, {"confirmationId",
    "taskId"})
browser_open_authorized_site_answers == {Answer("opened", {"tabId", "taskId", "revision"}),
    Answer("confirmation_required", {"confirmationId", "taskId"})}

browser_navigate == Tool({"openWorld"}, {"tabId", "url"}, {"confirmationId", "knownRevision",
    "waitUntil"})
browser_navigate_answers == {Answer("ok", {"tabId", "taskId", "revision"})}

browser_snapshot == Tool({"readOnly", "idempotent", "openWorld"}, {"tabId"}, {"forceFull",
    "knownRevision"})
browser_snapshot_answers == {Answer("ok", {"refs.ref", "revision"})}

browser_click == Tool({"openWorld"}, {"tabId", "ref"}, {"confirmationId", "knownRevision"})
browser_click_answers == {Answer("ok", {"revision"})}

browser_fill == Tool({"openWorld"}, {"tabId", "ref", "value"}, {"confirmationId", "knownRevision"})
browser_fill_answers == {Answer("ok", {"revision"})}

browser_press == Tool({"openWorld"}, {"tabId", "key"}, {"confirmationId", "knownRevision"})
browser_press_answers == {Answer("ok", {"revision"})}

browser_wait == Tool({"readOnly", "idempotent", "openWorld"}, {"tabId"}, {"knownRevision",
    "ref", "text", "timeoutMs"})
browser_wait_answers == {Answer("ok", {"revision"})}

browser_extract == Tool({"readOnly", "idempotent", "openWorld"}, {"tabId"}, {"completion",
    "format", "ref", "selector"})
browser_extract_answers == {Answer("ok", {})}

browser_sequence_navigate == Step("navigate", {"url"}, {"waitUntil"})
browser_sequence_click == Step("click", {"ref"}, {"confirmationId"})
browser_sequence_fill == Step("fill", {"ref", "value"}, {})
browser_sequence_press == Step("press", {"key"}, {"confirmationId"})
browser_sequence_wait == Step("wait", {}, {"ref", "text", "timeoutMs"})
browser_sequence_extract == Step("extract", {}, {"completion", "format", "ref", "selector"})
browser_sequence == Tool({"openWorld"}, {"tabId", "steps"}, {"finalSnapshot", "knownRevision"})
browser_sequence_answers == {Answer("ok", {"refs.ref", "revision"})}

browser_frame_extract == Tool({"readOnly", "idempotent", "openWorld"}, {"tabId", "frame"},
    {"completion", "format", "selector"})
browser_frame_extract_answers == {Answer("ok", {"frame"})}

browser_frame_click == Tool({"openWorld"}, {"tabId", "frame"}, {"confirmationId", "index",
    "knownRevision", "match", "selector", "text"})
browser_frame_click_answers == {Answer("ok", {"revision"})}

browser_frame_fill == Tool({"openWorld"}, {"tabId", "frame", "selector", "value"},
    {"confirmationId", "knownRevision"})
browser_frame_fill_answers == {Answer("ok", {"revision"})}

browser_profile_page == Tool({"readOnly", "idempotent", "openWorld"}, {"tabId"}, {"maxDepth"})
browser_profile_page_answers == {Answer("ok", {"frames.path"})}

browser_dom_index == Tool({"readOnly", "idempotent", "openWorld"}, {"tabId"}, {"framePath",
    "limit", "offset", "query", "rootSelector", "visibleOnly"})
browser_dom_index_answers == {Answer("ok", {"framePath", "items.ref", "items.selector",
    "nextOffset"})}

browser_frame_sequence_index == Step("index", {}, {"framePath", "limit", "offset", "query",
    "rootSelector", "visibleOnly"})
browser_frame_sequence_click == Step("click", {"locator"}, {"confirmationId", "framePath"})
browser_frame_sequence_fill == Step("fill", {"locator", "value"}, {"framePath"})
browser_frame_sequence_select == Step("select", {"locator", "value"}, {"framePath"})
browser_frame_sequence_press == Step("press", {"key"}, {"confirmationId", "framePath",
    "locator", "mode"})
browser_frame_sequence_waitFor == Step("waitFor", {}, {"framePath", "locator", "state", "text",
    "timeoutMs"})
browser_frame_sequence_extract == Step("extract", {}, {"format", "framePath", "locator"})
browser_frame_sequence_assert == Step("assert", {"condition"}, {"expected", "framePath", "locator"})
browser_frame_sequence == Tool({"openWorld"}, {"tabId", "steps"}, {"timeoutMs"})
browser_frame_sequence_answers == {Answer("ok", {"steps.ref"})}

browser_navigate_path_checkpoint_waitFor == Step("waitFor", {}, {"framePath", "locator",
    "state", "text", "timeoutMs"})
browser_navigate_path_checkpoint_extract == Step("extract", {}, {"format", "framePath", "locator"})
browser_navigate_path_checkpoint_assert == Step("assert", {"condition"}, {"expected",
    "framePath", "locator"})
browser_navigate_path == Tool({"openWorld"}, {"tabId", "path"}, {"checkpoint", "confirmationId",
    "segments", "sourceFramePath", "targetFramePath", "timeoutMs"})
browser_navigate_path_answers == {Answer("ok", {"framePath"})}

browser_screenshot == Tool({"openWorld"}, {"tabId"}, {"fullPage"})
browser_screenshot_answers == {Answer("ok", {})}

browser_go_back == Tool({"openWorld"}, {"tabId"}, {})
browser_go_back_answers == {Answer("ok", {"tabId", "taskId", "revision"})}

browser_go_forward == Tool({"openWorld"}, {"tabId"}, {})
browser_go_forward_answers == {Answer("ok", {"tabId", "taskId", "revision"})}

browser_close_tab == Tool({"destructive", "openWorld"}, {"tabId"}, {"confirmationId"})
browser_close_tab_answers == {Answer("ok", {"revision"})}

browser_finish_task == Tool({"destructive", "openWorld"}, {}, {"taskId"})
browser_finish_task_answers == {Answer("ok", {"taskId"})}

browser_download == Tool({"openWorld"}, {"tabId"}, {"confirmationId", "ref", "url"})
browser_download_answers == {Answer("ok", {})}

browser_upload == Tool({"openWorld"}, {"tabId", "workspaceId", "paths"}, {"confirmationId",
    "inputRef", "selector", "triggerRef"})
browser_upload_answers == {Answer("ok", {})}

browser_console == Tool({"openWorld"}, {"tabId"}, {"clear", "level"})
browser_console_answers == {Answer("ok", {})}

browser_network == Tool({"openWorld"}, {"action", "tabId"}, {"clear", "detail", "filter",
    "includeStatic", "index"})
browser_network_answers == {Answer("ok", {})}

browser_trace == Tool({"openWorld"}, {"action", "tabId"}, {})
browser_trace_answers == {Answer("ok", {})}

browser_video == Tool({"openWorld"}, {"action", "tabId"}, {"filename", "height", "width"})
browser_video_answers == {Answer("ok", {})}

browser_pdf == Tool({"openWorld"}, {"tabId"}, {"filename"})
browser_pdf_answers == {Answer("ok", {})}

browser_diagnostics == Tool({"openWorld"}, {"tabId"}, {"clearAfterRead", "consoleLevel",
    "includeStaticRequests", "requestFilter"})
browser_diagnostics_answers == {Answer("ok", {})}

\* The steps of the tools that take several.
browser_sequence_steps == {browser_sequence_navigate, browser_sequence_click,
    browser_sequence_fill, browser_sequence_press, browser_sequence_wait,
    browser_sequence_extract}
browser_frame_sequence_steps == {browser_frame_sequence_index, browser_frame_sequence_click,
    browser_frame_sequence_fill, browser_frame_sequence_select, browser_frame_sequence_press,
    browser_frame_sequence_waitFor, browser_frame_sequence_extract,
    browser_frame_sequence_assert}
browser_navigate_path_steps == {browser_navigate_path_checkpoint_waitFor,
    browser_navigate_path_checkpoint_extract, browser_navigate_path_checkpoint_assert}

\* Every tool of the manifest, and what it answers.
Catalog ==
    [list_workspaces |-> list_workspaces, list_workspace_roots |-> list_workspace_roots,
     list_files |-> list_files, read_file |-> read_file,
     read_files |-> read_files, write_file |-> write_file,
     patch_file |-> patch_file, run_workspace_validation |-> run_workspace_validation,
     run_command |-> run_command, start_background_task |-> start_background_task,
     get_background_task |-> get_background_task, get_background_tasks |-> get_background_tasks,
     wait_background_task |-> wait_background_task, list_background_tasks |-> list_background_tasks,
     cancel_background_task |-> cancel_background_task, read_background_task_logs |-> read_background_task_logs,
     write_background_task_stdin |-> write_background_task_stdin, read_background_task_output |-> read_background_task_output,
     search_files |-> search_files, search_files_batch |-> search_files_batch,
     inspect_workspace_git |-> inspect_workspace_git, get_workspace_context |-> get_workspace_context,
     git_create_branch |-> git_create_branch, git_stage_paths |-> git_stage_paths,
     git_unstage_paths |-> git_unstage_paths, git_commit |-> git_commit,
     git_merge_branch |-> git_merge_branch, git_push_branch |-> git_push_branch,
     github_get_repository |-> github_get_repository, github_create_repository |-> github_create_repository,
     github_get_pull_request |-> github_get_pull_request, github_create_pull_request |-> github_create_pull_request,
     github_merge_pull_request |-> github_merge_pull_request, browser_status |-> browser_status,
     browser_connect |-> browser_connect, browser_tabs |-> browser_tabs,
     browser_open |-> browser_open, browser_open_authorized_site |-> browser_open_authorized_site,
     browser_navigate |-> browser_navigate, browser_snapshot |-> browser_snapshot,
     browser_click |-> browser_click, browser_fill |-> browser_fill,
     browser_press |-> browser_press, browser_wait |-> browser_wait,
     browser_extract |-> browser_extract, browser_sequence |-> browser_sequence,
     browser_frame_extract |-> browser_frame_extract, browser_frame_click |-> browser_frame_click,
     browser_frame_fill |-> browser_frame_fill, browser_profile_page |-> browser_profile_page,
     browser_dom_index |-> browser_dom_index, browser_frame_sequence |-> browser_frame_sequence,
     browser_navigate_path |-> browser_navigate_path, browser_screenshot |-> browser_screenshot,
     browser_go_back |-> browser_go_back, browser_go_forward |-> browser_go_forward,
     browser_close_tab |-> browser_close_tab, browser_finish_task |-> browser_finish_task,
     browser_download |-> browser_download, browser_upload |-> browser_upload,
     browser_console |-> browser_console, browser_network |-> browser_network,
     browser_trace |-> browser_trace, browser_video |-> browser_video,
     browser_pdf |-> browser_pdf, browser_diagnostics |-> browser_diagnostics]

Answers ==
    [list_workspaces |-> list_workspaces_answers, list_workspace_roots |-> list_workspace_roots_answers,
     list_files |-> list_files_answers, read_file |-> read_file_answers,
     read_files |-> read_files_answers, write_file |-> write_file_answers,
     patch_file |-> patch_file_answers, run_workspace_validation |-> run_workspace_validation_answers,
     run_command |-> run_command_answers, start_background_task |-> start_background_task_answers,
     get_background_task |-> get_background_task_answers, get_background_tasks |-> get_background_tasks_answers,
     wait_background_task |-> wait_background_task_answers, list_background_tasks |-> list_background_tasks_answers,
     cancel_background_task |-> cancel_background_task_answers, read_background_task_logs |-> read_background_task_logs_answers,
     write_background_task_stdin |-> write_background_task_stdin_answers, read_background_task_output |-> read_background_task_output_answers,
     search_files |-> search_files_answers, search_files_batch |-> search_files_batch_answers,
     inspect_workspace_git |-> inspect_workspace_git_answers, get_workspace_context |-> get_workspace_context_answers,
     git_create_branch |-> git_create_branch_answers, git_stage_paths |-> git_stage_paths_answers,
     git_unstage_paths |-> git_unstage_paths_answers, git_commit |-> git_commit_answers,
     git_merge_branch |-> git_merge_branch_answers, git_push_branch |-> git_push_branch_answers,
     github_get_repository |-> github_get_repository_answers, github_create_repository |-> github_create_repository_answers,
     github_get_pull_request |-> github_get_pull_request_answers, github_create_pull_request |-> github_create_pull_request_answers,
     github_merge_pull_request |-> github_merge_pull_request_answers, browser_status |-> browser_status_answers,
     browser_connect |-> browser_connect_answers, browser_tabs |-> browser_tabs_answers,
     browser_open |-> browser_open_answers, browser_open_authorized_site |-> browser_open_authorized_site_answers,
     browser_navigate |-> browser_navigate_answers, browser_snapshot |-> browser_snapshot_answers,
     browser_click |-> browser_click_answers, browser_fill |-> browser_fill_answers,
     browser_press |-> browser_press_answers, browser_wait |-> browser_wait_answers,
     browser_extract |-> browser_extract_answers, browser_sequence |-> browser_sequence_answers,
     browser_frame_extract |-> browser_frame_extract_answers, browser_frame_click |-> browser_frame_click_answers,
     browser_frame_fill |-> browser_frame_fill_answers, browser_profile_page |-> browser_profile_page_answers,
     browser_dom_index |-> browser_dom_index_answers, browser_frame_sequence |-> browser_frame_sequence_answers,
     browser_navigate_path |-> browser_navigate_path_answers, browser_screenshot |-> browser_screenshot_answers,
     browser_go_back |-> browser_go_back_answers, browser_go_forward |-> browser_go_forward_answers,
     browser_close_tab |-> browser_close_tab_answers, browser_finish_task |-> browser_finish_task_answers,
     browser_download |-> browser_download_answers, browser_upload |-> browser_upload_answers,
     browser_console |-> browser_console_answers, browser_network |-> browser_network_answers,
     browser_trace |-> browser_trace_answers, browser_video |-> browser_video_answers,
     browser_pdf |-> browser_pdf_answers, browser_diagnostics |-> browser_diagnostics_answers]
=============================================================================
