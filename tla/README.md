# Terrareg in TLA+

TLA+ models of the [Terrareg](https://github.com/MatthewJohn/terrareg) registry server, the checks TLC
makes of them and the theorems TLAPS proves about them. The models follow the Python server
under `src/terrareg/`, and the pages it serves (`static/js/terrareg/`); line numbers below are those of this
repository. `PROJECT.json` lists, for each definition, the lines it stands for.

1. [The system](#the-system): the components, what each keeps and does, what is hard about it
2. [The models](#the-models): which module models what, and how
3. [The runs](#the-runs): what is checked, on which instances, and what was found
4. [The proofs](#the-proofs)
5. [What is not modelled](#what-is-not-modelled), and [the plan](#the-plan)

## The system

Terrareg is a Flask application. Its state is a SQL database (SQLite by default, MySQL or
PostgreSQL), a file store (a directory or S3) and little else. Requests run in threads, or in several
processes, and meet only in these two. `Database.get_connection` (database.py:924) hands out
an autocommitting connection, unless the handler opened a transaction
(`Database.start_transaction`), which is then used by everything the request calls.

| Handler | Transaction |
|---|---|
| upload, import, GitHub hook, Bitbucket hook (a savepoint for each tag), create module provider, publish provider | one for the request |
| publish, delete a version, delete a module provider, settings and renaming, namespaces, redirects, downloads | none: each statement commits by itself |

Neither uniqueness of names and versions nor "the latest version is the highest published one" is
a constraint of the schema: the code looks before it writes. This is where the program can go
wrong in ways its tests, which run one request at a time, hardly reach.

### Components

**Module version index** (`models.py` ModuleProvider, ModuleVersion; `analytics.py`).
*State:* `module_version` rows (version, published, beta), `module_provider.latest_version_id`, `analytics`
rows with a `parent_module_version` that is no foreign key. *Operations:* `_create_db_row` (index, and
re-index under `MODULE_VERSION_REINDEX_MODE` legacy, auto-publish or prohibit), `publish`, `delete`,
`ModuleProvider.delete`, `record_module_version_download`, `calculate_latest_version`. *Hard:* a re-index deletes a row and
inserts another, whose id may be new or, on SQLite, the old one; what refers to the version must
follow. *Correct when:* one row per version; the pointer names the highest published version that is
not a beta; downloads belong to versions that exist; the documented life of a version is kept.

**Requests on module versions** (`server/api/module_version_*.py`, `terrareg_module_version_*.py`,
`module_extractor.py`, `database.py`, `file_storage.py`). *State:* transactions in progress, the write lock, archives.
*Operations:* upload and import, the GitHub hook (published, deleted), publish, delete, download.
*Interactions:* all requests share the tables; indexing writes the archive in the middle of its
transaction. *Hard:* interleavings of requests that open no transaction, failures at any statement,
files that do not roll back, `database is locked`, a kill. *Correct when:* the index stays right
whatever interleaves, nobody sees half a version, archive and row agree, every request ends.

**Names and redirects** (`models.py` Namespace, NamespaceRedirect, ModuleProvider,
ModuleProviderRedirect). *State:* `namespace`, `namespace_redirect`, `module_provider`,
`module_provider_redirect`. *Operations:* create, rename, move and delete, resolve a name, delete a redirect unless
it is in use. *Hard:* long sequences of legal operations that reuse names; comparisons that differ
between databases (LIKE and "=", case, "_"); deletions that cascade on some of them. *Correct when:*
names are unique, a name leads to one thing, old names go on leading to what moved, redirects do
not dangle.

**Bitbucket hook** (`server/api/module_version_create_bitbucket_hook.py`, `database.py`). *State:* the transaction of
the request, a savepoint for each pushed tag. *Operations:* import each tag, answer with the outcome of each.
*Hard:* errors of Terrareg are caught for each tag, other exceptions (`TimeoutExpired` of a git clone) leave the handler; the
driver of SQLite begins its transaction with the first write, which may be the savepoint itself. *Correct when:* a failed tag
leaves nothing and the others stay, and the answer says so.

**Extraction** (`module_extractor.py`): a pipeline of external programs (git, terraform-docs, tfsec,
Terraform, zip). *State:* one process-wide lock with a timeout of 60 seconds, and the Terraform that tfswitch installed last.
*Hard:* `terraform init` has no timeout, and the module and each of its submodules take the lock anew. *Correct when:* each of them is
analysed by the Terraform it wants, the lock is always given back, and its timeout fails the tag cleanly.

**Providers and GPG keys** (`provider_model.py`, `provider_version_model.py`, `provider_extractor.py`, GpgKey).
*State:* `provider`, `provider_version`, its latest version, `gpg_key`. *Operations:* create a provider with its
first version, index a version, both in nested transactions, add a key, delete a key that is not in use.
*Correct when:* the latest version is the highest that is not a beta, a provider is never left
without versions by its creation, keys in use are not deleted.

**Terraform identity provider** (`terraform_idp.py`): codes and tokens in tables with unique keys, set by update-or-insert,
dropped when they expire. *Hard:* two threads that set one key. *Correct when:* a value stays until it expires.

**Module provider settings** (`server/api/terrareg_module_provider_settings.py`, `models.py`, `SettingsTab`): several
attributes, a commit each, the first that is refused ends the request. *Hard:* the page sends all of them, from a
form whose drop-downs are filled by answers that come later. *Correct when:* what the user left alone stays, and the message tells what happened.

**Web interface** (`static/js/terrareg/module_provider_page.js`): the page of a module. *State:* the tabs, the requests they wait for, the
anchor in the address bar; inputs of the usage builder. *Hard:* answers in any order while the user clicks and types. *Correct when:* the page shows a tab that
has content and that its address names; the Terraform that is generated is what the inputs say.

**Sessions, authentication, permissions** (`models.py` Session, `auth/`): session rows with an expiry,
and a chain of authentication methods. **Version order and constraints** (`loose_version.py`, `version_constraint.py`): pure functions.
**Provider sources, git providers, categories**: rows reconciled with configuration at start-up.
**Analytics statistics, search, pages, audit trail**: read-only queries, formatting, append-only rows.

## The models

```
VersionCatalogue            what the index promises: versions, no rows
   ^ implements (proved, checked)
VersionIndex                rows, pointer, analytics; whole requests        VersionIndex_proofs
   ^ implements (proved, checked: SerialRequests)                          SerialRequests_proofs
VersionRequests             statements, threads, transactions, files      VersionRequests_proofs
Redirects                   names of namespaces and module providers        Redirects_proofs

ServerJobs composes         threads of the server, and what they share      ServerJobs_proofs
  ServerThreads             the threads and the database
  BulkImport                Bitbucket's hook, savepoints, TERRAFORM_LOCK    BulkImport_proofs
  ProviderIndex             provider versions and GPG keys                  (in ServerJobs_proofs)
  IdpStore                  codes and tokens of the identity provider       (in ServerJobs_proofs)
WebClient composes          a page of a module in the browser               WebClient_proofs
  ModulePage                tabs, answers, clicks                           ModulePage_proofs
  UsageBuilder              inputs and the Terraform generated from them    (in WebClient_proofs)
  SettingsForm              the settings form and the request it sends      (in WebClient_proofs)
```

The parts of a composition share no state (the two tabs work on what they were rendered with, the three
kinds of jobs on tables of their own). A variable `looked` picks at first the part a behaviour is about, and the others
rest: interleaving them would multiply the states and show nothing new. `ServerJobs` and `WebClient` have the constants of their parts, so that
theorems about them hold for all values; `MCServerJobs` and `MCWebClient`, like the other MC modules, only define the instances that TLC checks.

Definitions whose comment begins with "A fault:" are no part of the models: each is a definition of the
code with a plausible bug in it, and `PROJECT.json` says which property fails when the
definition is replaced by it. It is how we know that each property can fail.

### VersionCatalogue and VersionIndex

`VersionCatalogue` is what a user is promised: each version is absent, indexed or published, one is
the latest, and a re-index keeps or drops the published state by the mode. Rows and ids do not
occur.

`VersionIndex` has the rows of one module provider: `rows` (the ids in use), `versionOf`, `published`,
`latest` (latest_version_id) and `parentOf` (analytics). Each action is a whole request. `Index` is `_create_db_row`
with the `delete` it calls for an existing row, the insertion under an id that is not in use (so
SQLite's reuse of ids is included), the migration of the analytics, and `publish` if the mode or
`AUTO_PUBLISH_MODULE_VERSIONS` says so (`ShouldPublish`). `mode` and `auto` are variables of both modules, which the refinement maps to each other and which only
`Reconfigure`, a restart with other settings, changes: a re-index must do what the settings in force say. `Delete` recalculates the pointer. `CalculateLatest` is
`calculate_latest_version`. Versions are numbers in the order of LooseVersion; `Beta` is the set of those that parse as beta.

The refinement maps a version to its state (`VersionState`), the pointer to a version (`LatestVersion`) and
analytics to versions (`DownloadsByVersion`).

### VersionRequests and SerialRequests

The same requests with one action for each statement that another request can observe. `pc[t]` is the
statement thread `t` runs next and `req[t]` the variables of its request: the row it read
and cached, the version that was calculated to be the latest. `db` is what is committed; `work` is what the transaction that
holds the write lock (`holder`) sees; `Write` commits at once for requests without a
transaction. The model is of SQLite as the driver uses it: the transaction begins at the
first write, which takes the one write lock; reads take no lock. A write that does not get
the lock, or a commit that waits for readers, times out (`LockTimeout`) and the request fails. Foreign keys are not enforced, as Terrareg opens SQLite; on the other databases
the deletion of `module_details` already drops the row, by the cascade of the schema. `ExtractionFails` is any error of the pipeline; `Crash` kills
the process. `archive` is the file store, which no rollback touches.

| Action | Code |
|---|---|
| `StartIndex` | handler, `_create_db_row` up to the decision to re-index (models.py:4465-4488) |
| `DeleteSubmodules`, `DeleteAnalytics`, `DeleteDetails`, `CreateAuditEvent`, `DeleteFiles`, `DropRow`, `Recalculate` | `ModuleVersion.delete` (4403-4463) |
| `InsertRow` | the rest of `_create_db_row` (4490-4508) |
| `GenerateArchive`, `InsertDetails`, `ScanSubmodules` | `process_upload` (module_extractor.py:720), the extraction wrapper (models.py:4350) |
| `MarkPublished`, `AnyLatest`, `IsLatest`, `ReadPk`, `PointLatest` | `publish` (4246-4264), whose condition calculates the latest version twice |
| `Finish`, `Abandon` | commit and rollback by `Transaction.__exit__` |

The `content` of a row stands for its `module_details`, submodules and examples: `InsertDetails` sets it, and `DeleteSubmodules` and `DeleteDetails` take it away before the row goes. Details are found by
what the row named when it was read (`had`), since two racing uploads leave two rows with the same details. That a later upload of another version gets an id of
`module_details` that was freed in between is not modelled.

`config` says how the server is deployed (mode, auto-publish) and which requests arrive; it never
changes. A run with several deployments therefore checks each of them by itself, and a property says for which it holds.

`SerialRequests` lets a request arrive only when no other is in progress (`TakesTurns`; there may be any number of threads) and shows that the statements
of a request add up to one action of `VersionIndex` (or to none, if it fails inside a
transaction), with the mode and auto-publish of the deployment for its settings.

### Redirects

`nsName` and `home` are the namespace and module_provider rows, `nsRedirects` and `redirects` the redirect rows,
`lastUse` the last download of each analytics token from each module provider, with the names it was made by, which
is all that `check_module_provider_redirect_usage` reads. `Like` and `Equal` are the two comparisons the code uses on the three
databases: `Like` also matches the pairs in `Wild`, names that differ where the pattern has a "_".
The flag `case_insensitive` selects "=" and its absence LIKE (models.py:712, 2116), and is modelled as it is.
A query that matches several rows without an order gives any of them. `RenameProvider` is the
renaming part of the settings request: the redirect it creates has the old name as the
request spelled it, and none is created if the provider finds itself under the new name.

The page that renames a module provider says that its old name will "cease to work if a new module is created with
a matching details" (templates/module_provider.html:634). `ModuleProvider.create` refuses such a module
(models.py:2299-2304); the model follows the code.

### BulkImport

Each thread serves one hook with a `payload` of changes, for a module provider of its own. `rows` is what is committed, `work` what the
transaction sees, `save` what it saw when the savepoint was set. A version is represented by which change imported it, so that a payload with
the same tag twice shows whose import won.

| Action | Code |
|---|---|
| `Skip`, `BeginTag`, `ReindexRefused` | the loop of `_post` (module_version_create_bitbucket_hook.py): the tests of a change, `begin_nested`, `prepare_module` |
| `Extract`, `ExtractionFails`, `ExtractionRaises` | `process_upload`; errors of Terrareg are caught by the loop, others are not |
| `Acquire`, `GivesUp`, `Switch`, `SwitchFails` | `_switch_terraform_versions`: the lock, its timeout, tfswitch |
| `Run`, `LockedRaises`, `Hang` | what is done inside the `with` (init, graph, version), for the module and each submodule (`part`); exceptions that the loop does not catch, of tfswitch too, release the lock on their way |
| `FinishTag`, `TagFails`, `Answer`, `Raises` | `savepoint.commit`, `savepoint.rollback`, the response and the commit, the rollback of the request |

On SQLite (`sqlite`) the driver has begun no transaction when the first savepoint is set, and releasing an outermost savepoint
commits. `nested` says whether an earlier savepoint was rolled back and not released: from then on nothing is committed before the
answer. On the other databases nothing is committed before it anyway. `PayloadAssumption` says that a change has at least one
part to analyse, the module itself.

### ProviderIndex

`versions` are the provider_version rows, `latest` the latest_version_id, `request[t]` what a thread is doing, with the row its transaction has written
(`request[t].row`). Publishing walks through `Releases`, newest first: a refused release is rolled
back to its savepoint and the next is tried (`NextRelease`, `refresh_versions`); when none is left the provider goes too (`NothingFound`). `CheckKey` and `DeleteKey` are the two
statements of `GpgKey.delete`. `deployment` says whether requests come one at a time and whether the database
enforces foreign keys (SQLite does not, as Terrareg opens it). `ProviderIndexAssumption` says which constants are meant: in particular one thread indexes,
unless requests come one at a time, since what two transactions insert at once is not modelled.

### IdpStore

`UpdateValue`, `InsertValue` and `CleanAndCommit` are the statements of `__setitem__`; `setter[t]` is the thread's transaction. An update that finds
no row is followed by an insert, which fails if another thread has inserted meanwhile. On SQLite the first statement takes the lock of the
database; on others only writers of one row wait for each other (`Blocked`).

### ModulePage

JavaScript runs to completion, so that an answer with everything that awaited it is one action (`Arrives`), and so is a click. `site` is the page
that is open, `tabs` the registered tabs in order, `answer` the requests; `PromiseWith` is what the promise of a tab has come to, and the default tab is chosen by `DefaultTab` in the step in which
the last of them settles (`TabFactory.setDefaultTab`). Names of additional tabs are computed as the code does
(`AdditionalName`: only the first character that is no letter is replaced), since two titles may get one name.
A name goes unescaped into the selectors `#module-tab-...` by which tabs are shown and searched. One that keeps a character which no id has (`IsId`; "C++" becomes `custom-C-+`) finds nothing or makes jQuery throw, after
all tabs were hidden: nothing is shown (`Blank`). At an anchor of a row, `setDefaultTab` searches the tabs in order, and a name in `Refused` ends the search with an error, so that no default tab is
shown (`DefaultTab` is 0). Addresses are percent-encoded (`Encoded`): a tab with such a character in its title, which may be a letter like "é", is shown by a click but not found at its address again.
A request whose failure has no handler leaves its tab waiting.

`SiteAssumption` says what a page may be; "%XX" stands for the characters that an escaped one becomes in an address. Titles with a quote, a backslash, "&", "," or "%" are left out: they end a string or an
attribute of the HTML made from them, separate selectors, or look like an encoded character. `NamesAssumption` leaves out pairs of titles such as "C#" and "C++", where the id of
one tab is the beginning of the other's name.

### UsageBuilder

`input` is what the DOM holds. Typing (`Enter`) and the keyup that follows (`Keyup`) are two events, and pasting has no keyup; `Keyup` is the handler of list rows that
removes empty inputs and adds one at the end. `GenerateTerraform` goes through the rows in order, with quoting and the HTML escaping of
the result as the code does them. What the loops over a list gather is `Sublist(list, positions)`, by a recursive function, which can be proved about, and `NonEmpty` is
the list without its empty values. `UsageAssumption` says that a select row has choices and that "" is among the values one may type.

### SettingsForm

`saved` is the row, `details` the row as the page knows it, `form` the inputs, `arrived` the drop-downs that have their options.
`Submit` sends `Body`, `Update` is the server's next attribute: checked, then written and committed, or refused. `Quoted` is what the server makes of a value
(percent-encoding), `Resolved` what the page makes of placeholders in the git path, `PathOf` the path a git provider suggests. The three URL templates, and the flags,
which the code treats alike, are represented by one each. `SettingsAssumption` says what the form may start from: settings that are stored have passed the
server's checks, and percent-encoding neither changes a stored URL (it takes no "%" for a character to encode) nor makes a good value one that is
refused. URLs whose host is an IPv6 address, which the encoding breaks, are left out by it.

## The runs

| Run | Module, configuration | Instance | Result |
|---|---|---|---|
| version_index | MCVersionIndex, VersionIndex | 3 versions, one a beta; 4 ids; 2 downloads; 3 modes, with and without auto-publish | passes, 141,318 states |
| requests_racing | MCVersionRequests, RequestsRacing | 2 threads, 2 versions, one a beta, 2 ids, 5 deployments, kills | passes, 370,533 states |
| requests_alone | MCSerialRequests, RequestsAlone | 1 thread, 2 versions, 3 ids, 1 download, 4 deployments, kills in two of them | passes, 733,584 states |
| redirects | MCRedirects, Redirects | 2 namespaces, 2 module providers, names of which 2 differ in case, 3 databases, 1 token | passes, 245,427 states |
| web_client | MCWebClient, WebClient | 7 pages, 4 modules with rows of every type, 3 settings | passes, 272,454 states |
| server_jobs | MCServerJobs, ServerJobs | 2 threads; 2 payloads, both databases; 4 releases, 2 keys; 1 code with 2 values | passes, 66,235 states |
| concurrent_publishes | MCVersionRequests, ConcurrentPublishes | 2 threads that publish | LatestIsRightWhenQuiet fails |
| failed_reindex | MCVersionRequests, FailedReindex | 1 thread that indexes again | ArchivesMatch fails |
| unpublished_download | MCVersionIndex, UnpublishedDownload | as version_index | OnlyPublishedAreServed fails |
| underscore_names | MCRedirects, UnderscoreNames | names a-b and a_b | NamesAreTheirOwn fails |
| reused_namespace_name | MCRedirects, ReusedNamespaceName | 2 namespaces, 3 names | RenamedNamespacesStayReachable fails |
| typed_text | MCWebClient, TypedText | as web_client | TextIsUsedDirectly fails |

**version_index.** Every order of whole requests keeps one row per version, the right pointer and
analytics that belong to rows, and implements the catalogue, whatever the settings are and whenever they change. Three versions are enough for a highest one that
is a beta, one below it, and one more; a spare id lets a re-index get a fresh id or reuse one.

**requests_racing.** Two threads, since every race of the code is between two requests. Where
only transactions write (uploads and the GitHub hook, re-indexing prohibited), the committed pointer
is always right, in every interleaving, with lock timeouts and kills anywhere. Publishing beside first uploads never points
at a beta or at an unpublished version, if uploads publish at once (`LatestIsEligible`). Without `AUTO_PUBLISH_MODULE_VERSIONS` it may: of two
uploads of one new version, with a publish between them, the second marks the rows of both as not published (`InsertDetails`, which is
`_insert_database`). Where
nothing is deleted, no committed row is ever without its extraction (`NoHalfIndexedVersion`), also while versions are indexed again: two of the deployments index and publish, one of them replacing what is there.
Deleting breaks it: the delete endpoint commits the loss of submodules and details before that of the row, so that others see
a version without them, and a kill or a lock timeout leaves it so; and after two racing uploads the GitHub hook's deletion of one row takes the details of both. Under
weak fairness of each thread every request ends, in all five.

**requests_alone.** What must survive failures and kills when nothing races: uniqueness, the pointer, the
analytics, and archives as long as nothing is re-indexed; and that the statements of each request add up to an action of
VersionIndex (`ImplementsIndex`). DownloadsHaveRows and OneRowPerVersion do not hold with two threads: see the hazards in `PROJECT.json`.

**redirects.** Names stay unique and unambiguous and keep leading to what moved, as far as the database lets
them: the properties name the databases on which they hold, and their comments say what fails on the
others. `UsedNamesKeepLeading` is what the in-use check is for. Two redirects of module providers, one of namespaces
(`MaxRedirects`, `MaxNsRedirects`), are enough for an ambiguous name and for a download by a former name of the
namespace.

**web_client.** Whatever answers come in whichever order, and wherever the user clicks meanwhile: a tab that is
shown has content; a page shows the tab its address names, provided that the tab's name is an id and its own; once its requests succeed it shows one. Of the seven pages one is opened at the address of a title like
"C++", where nothing is shown, one at an anchor beside a title that jQuery refuses, where no default tab is, and both exceptions are stated in the properties (`AddressIsNoId`, `SearchIsRefused`). Lists of the usage
builder lose no value to the handler that adds and removes their inputs, and the Terraform has what was typed or pasted. Settings that the user left alone survive one or two
submissions, with the four exceptions that the comment on `UntouchedSettingsSurvive` names. Three inputs let one in
the middle of a list be emptied; one edit and two submissions let a request overtake another.

**server_jobs.** Hooks that run at once, one of them with a Terraform that may never end: every analysis runs the Terraform it wants, a tag fails for
want of the lock only while another thread runs Terraform, the answer tells what was
imported, nothing but whole tags is ever committed, and each other hook ends (`HooksEnd`). Versions of providers are whole, there once, and have their key
where foreign keys are enforced or requests come one at a time; the latest is the highest that is not a beta. Codes and tokens stay until they expire. One payload has the same tag twice, the other a
submodule that wants another Terraform than its module; of the four releases one is a beta and one has no signature.

**Findings.** *concurrent_publishes*: two publishes interleave between calculating and assigning
the latest version, and the lower one wins for good. *failed_reindex*: a re-index that fails
rolls the row back and leaves the new archive, or none. *unpublished_download*: the download endpoint
does not read `published`, though the documentation says that a re-indexed version is not available until it is
published again. *underscore_names*: the lookup that should refuse a name that is taken finds, by LIKE, the module provider
itself. The run lets any matching row be found; with a row order of the database (x is created, a_b is created, x is renamed to a-b
and then to a_b) it is the first. *reused_namespace_name*: two namespaces leave redirects of the same
name. *typed_text*: best_practices.md:95 says that a text input is used directly; the page escapes the generated Terraform as HTML and then
puts it on the page as text (module_provider_page.js:1824), so that the user reads `&quot;` where there should be a quote.

Met on the way, and modelled as the code has it:

- A "custom" choice of a select row is looked up by an id without "#" and is always `undefined` (`SelectedChoice`).
- A tag format is percent-encoded again by each save (models.py:2864: "%" is not in the safe set), and placeholders in the git path are
  replaced by the values that the page shows once the settings are saved.
- Where custom URLs are not allowed, saving gives a module provider that has no git provider the first one.
- Usage builder variables are quoted by default (models.py:3902), where the documentation says they are not.

**Bounds.** Besides the sizes above: an index request arrives only while an id is left for it, and
a download while an event is left to record (`StartIndex`, `StartDownload`); `MaxRedirects` and
`MaxNsRedirects` bound the redirect tables; `MaxInputs` the inputs of a list row (3), `MaxEdits` (1) and `MaxSubmissions` (2) what the user does with the
settings form, `MaxId` (4) the rows of a provider, `MaxTime` (3) the clock of the identity provider, whose values live for 1. In `BulkImport` and
`ModulePage` nothing needs a bound: payloads end and each request is answered once. In the other models sets of rows are bounded by the ids.

**Fairness.** `FairSpec` asks weak fairness of each thread's `Step`: a thread that serves a request
goes on running, a statement that waits for the lock either gets it or times out
(`LockTimeout` is a step, and enabled as long as another thread has the lock), and external programs end or are timed out. No fairness is asked of
arrivals, and a kill is never required to happen. `BulkImport` asks the same of each thread: waiting for the lock ends after
60 seconds, waiting for the database after SQLite's timeout, and subprocesses end, except in the threads of `MayHang`, which may (`Hang`) stop for ever. `ModulePage` asks it of answers:
a request that was sent is answered or its connection fails. No fairness is asked of the user. The deadlock check is off in the request and redirect
models where a configuration stops for want of ids or requests (where versions are only published and deleted, nothing arrives once all are gone), which is the bound's doing and not the program's, and in the
two compositions, where hooks have ended, a user need not do anything and the clock stops at its bound.

## The proofs

`VersionIndex_proofs` proves, for any number of versions, any betas, any set of ids and of downloads
(under `IndexAssumption`: the versions are a segment of the natural numbers, betas are versions, and "no row" is not an id):

- `TypeCorrect`, `RowsAreUnique`, `LatestIsCorrect`, `NoOrphanedDownloads`: the four invariants. The inductive invariant is
  their conjunction (`IInv`): the pointer is right after a publish only because the version string that is compared
  belongs to one row, and an index moves the analytics of the row it replaces only because
  no second row has the version. `HighestExists` (a set of rows that is not empty has a highest version, by
  well-founded induction) makes `CalculateLatest` mean what its name says.
- `Refinement`: every behaviour of the rows is one of the catalogue with the same settings. One lemma per action;
  `LatestRefines` turns the invariant about the pointer into the catalogue's.

`Redirects_proofs` proves, for any sets of names, namespaces, module providers and databases, and any bounds:

- `TypeCorrect`; `RedirectsDoNotDangle`, by the invariant that module providers are in namespaces that exist
  (`Housed`), from which a renaming makes its redirect.
- `NamesAreUnique`, if `Wild` is empty, as the run underscore_names shows it must be. Uniqueness is not inductive: a provider may take the name under which it finds itself,
  which is safe only if no *other* has that name in other case. The invariant is `Apart`: no two module providers of a namespace
  match each other by LIKE.
- `NamesLeadToOne` (`NamesAreUnambiguous`), if `Wild` is empty, from `Leads`: where "=" and LIKE agree, a former name has one target, and a present name of a
  module provider is no former name of another one. It needs `Apart`, since a renaming makes a redirect from the name that the request spelled, and that name
  must be nobody else's.
- `OldNamesLeadThere` and `UsedNamesLeadThere` (`RenamedProvidersStayReachable`, `UsedNamesKeepLeading`), action properties, from the same invariant. By it the order in which present and
  former names are looked up does not matter (`BothWays`), so that a name which becomes a former one goes on leading to the same provider.

`VersionRequests_proofs` proves, for any number of threads, versions and ids, any betas and any deployments, under `RequestsAssumption`:

- `TypeCorrect`, action by action.
- `ExtractionIsWhole` (`NoHalfIndexedVersion`): where nothing is deleted. Only transactions hold the lock (`Serves`), and the rows without content that one has
  written are those of the version it indexes, from the deletion of the old row's parts to the update of the new row (`Extracted`; `Damage` says at which label which rows may be without). A request that is not
  a transaction does no damage (`Legal`).
- `LatestStaysEligible` (`LatestIsEligible`): rows of one version are published together (`Agrees`), so that it does not matter which of
  two racing rows the pointer gets; what is published stays so (`Keeps`), so that what a thread read before is eligible when
  it writes the pointer (`Points`). A transaction breaks both for its own version, between `InsertDetails` and `MarkPublished`.
- `TransactionsKeepRight` (`TransactionsKeepLatestRight` where re-indexing is prohibited): the pointer names a row of the highest eligible version
  (`Right`) in what is committed. `Position` says for each label how far the tables of the open transaction are from it, `Route` which labels
  the requests of a kind pass. Rows that a thread read before its first write may be stale, but the pointer is calculated only from what it reads after. Without auto-publish one more
  part is needed: a version that is being uploaded is not published meanwhile (`Older`, `NoneOf`).

The three invariants include `TypeOK`; each is shown by a lemma per group of actions, with a frame in common: a step of one thread leaves the requests of the others, and the work of the
lock's holder, alone (`Frame`).

`SerialRequests_proofs` proves, for any number of threads that take turns, under `RequestsAssumption`:

- `SerialRefinement` (`ImplementsIndex`): every behaviour implements `VersionIndex`, where kills stop only requests that have a transaction (`KillsOnlyTransactions`: a delete that dies
  half way is no action of `VersionIndex`). The invariant `SerialInv` says at each label what the tables that the request in progress
  sees (`View`) are, as a function of the tables it found (`settled`): `Deletion`, `Replacement`, `Insertion`, `Publication` and `Recording`, one for each kind of request, tied
  together by `Stage`; `Placed` and `HasRead` say where the pointer stands and what has been read for its next place. At the last statement the view is
  what the action of `VersionIndex` leaves behind, and a rollback is no step.
- `OneRowWhenAlone`, `DownloadsHaveRowsWhenAlone`, `LatestRightWhenAlone`, `LatestRightAfterRequests`, from the same invariant; the first two in every deployment, with kills anywhere. With two
  requests at once the first two are false, as the hazards say.
- `FirstArchivesMatchWhenAlone` (`FirstArchivesMatch`): in addition, from the moment it is written, the archive is that of the request in progress (`Archived`).

`ModulePage_proofs` proves `TypeCorrect`, `AddressesNameTabs` (`AddressNamesShownTab`) and `ShownTabsHaveContent` (`ShownTabHasContent`), for any pages, titles and addresses, and every order of answers and clicks.
`PageInv` adds that requests are sent once and in order (`SentInOrder`), so that no answer changes what a settled tab resolved to (`PromiseKept`), and that an additional tab is in the DOM when it is
valid (`ValidExtrasAreInserted`), so that the selector finds one. Lemmas compute the default tab (`DefaultTabIsValid`: a settled page has a valid tab, and an additional tab is the default only at its address, since `inputs` comes before them
all, `InputsComeFirst`) and what a selection shows (`SelectProper`). Nothing is shown only while the address is that of a name which is no id, since only a click on a tab moves the address away from there.
The proofs hold for any `IdChar`, `Escaped` and `Refused`.

`BulkImport_proofs` proves, for any number of threads, versions and tags, any databases among the two kinds, and whichever threads may hang:

- `TerraformIsRight` and `LockIsGivenBack`, from `LockInv`: the holder of the lock is exactly the thread inside the `with` statement, and the binary is the one it
  asked for once it has switched. The invariant about the binary alone is not inductive: that no other thread switches it is what the lock is for. `LockIsGivenBack` is an action property: a thread gives up
  only while another is inside.
- `ResponseIsTrue` and `TagsAreWhole`, under `PayloadAssumption` and `DatabaseAssumption`, from `WholeInv`: the committed rows are what the first so many changes made (`After`), none of
  which failed before them; the transaction sees what all changes so far made, plus the one in progress; the savepoint is the state before that one. A failed change is undone
  by the savepoint, an exception by the transaction. `LatestImported`, `LatestOther` and their like say how `After` changes with one more change.
- the types (`TypeOK`, in `ImportInv`), from `BoundInv`: what the rows tell of a version is the number of one of the payload's changes, one thread at most is
  the database's writer, and a thread that analyses is at a part its change has.

`ServerJobs_proofs` proves, under the assumptions of the parts:

- of `ProviderIndex`, for any list of releases, any keys and threads: `ProviderTypes`, `ProviderVersionsAreWhole`, `ProviderLatestIsRight`,
  `ProviderVersionsHaveKeys`, `ProvidersAreNotEmpty`. `IndexInv` adds what each request carries from one step to the next: what it has read is of the
  release it is at (`Fits`), and still holds (`Own`: no visible row has its id or version; its key is there, if foreign keys or turns protect it; a request
  that takes turns still knows whether its version is the highest). The id of a new row is above all visible ones (`NextIdIsFresh`).
- of `IdpStore`, for any threads, keys, values and lifetime, if "no row" is not a row: `StoreKeepsValues` (`ValuesAreKept`). `SetterInv` says that a thread
  about to commit has the expiry of the row that is there, or that there is none and nobody else has inserted it. The bounds of the
  clock are a separate invariant, `ClockInv`.
- of the composition: `JobsTypes`, `JobsKeepProviders`, `JobsKeepValues` and `JobsKeepImports`, the properties that server_jobs checks, stated for
  `JobsSpec`. A step of it is a step of one part and a stutter of the others (`JobsStep`), and its initial states are initial states of all, so that `JobsInv`,
  the conjunction of `ImportInv`, `IndexInv`, `SetterInv` and `ClockInv`, is inductive.

`WebClient_proofs` proves, under the assumptions of the parts:

- of `SettingsForm`, for any module provider, any number of edits and of requests in progress: `UntouchedSettingsStay` (`UntouchedSettingsSurvive`, an action
  property) and `MessagesAreHonest` (`OutcomeIsHonest`). `SettingsInv` says what a form holds in the fields nobody touched, as a function of the details
  and of the drop-downs that have arrived (`FormIsFilled`), that a body that was sent is such a form (`BodyIsFilled`), that what the page loaded
  is still stored, apart from the exceptions of the property (`Surviving`), and, of a request that is the only one, that the attributes before the one it is at are stored as the body has
  them (`Progress`). Honesty of the message needs the last part; survival does not, and so holds when requests overtake each other.
- of `UsageBuilder`, for any rows and lists of any length: `TypedListsAreKept` (`ListsKeepValues`) and `GeneratedIsTyped` (`OutputFollowsInputs`), action
  properties. They rest on lemmas about `Sublist`: it has the elements at the positions it is given and nothing else (`SublistGathers`), and one more
  element adds itself at the end, or nothing (`SublistStep`). The library's induction theorems have an operator for a parameter, so
  these are proved by the least position at which they could fail (`UpToGathers`).
- of the composition: `WebTypes`, `WebKeepsPage`, `WebKeepsUsage` and `WebKeepsSettings`, the properties that web_client checks, stated for `WebSpec`, from
  `WebInv`, the conjunction of `PageInv`, `UsageInv` and `SettingsInv`.

Each invariant and each action property of a passing run is stated by a theorem. Only model-checked are the case of `TransactionsKeepLatestRight` in
which one thread alone indexes again, stated for `VersionRequests` itself (`LatestRightWhenAlone` is its form for threads that take turns); the
violations; and liveness (`RequestsEnd`, `HooksEnd`, `PageShowsATab`), which is out of the prover's reach.

## What is not modelled

- MySQL and PostgreSQL as databases of `VersionRequests`: their isolation levels admit more interleavings of
  transactions than SQLite's single writer. The findings do not depend on SQLite.
- The content of modules and what is extracted from it: an archive is a model value.
- The order of versions as strings: versions are numbers.
- Several threads in `Redirects`: each of its requests looks and then writes without a transaction, so that two of them can both take a name;
  nothing in the schema stops it.
- Of the pages: layout and presentation, the forms that import, move and delete, the page of a provider (where nothing marks the latest version), the setup
  page. Their handlers send one or two requests and show the answers. The module graph is drawn by cytoscape and its extensions, third-party
  code of which the repository has two copies; most JavaScript lines of the repository are these.
- The Go port (`terrareg-go`): a rewrite in progress, with a copy of the same pages in its own directory.
- Several threads that index versions of one provider: nothing in the schema makes versions unique or orders the updates of `latest`, as for modules.
- Read-only queries, the protocols of identity providers and of GitHub, start-up reconciliation. `PROJECT.json` gives each component with the reason.

## The plan

In this order; what is done is marked.

1. *(done)* `VersionCatalogue`, `VersionIndex`, and the proofs.
2. *(done)* `VersionRequests`, `SerialRequests`.
3. *(done)* `Redirects` and its proofs.
4. *(done)* `BulkImport`, with the lock of Terraform, and its proofs.
5. *(done)* `ProviderIndex`, `IdpStore` and their proofs.
6. *(done)* `ModulePage`, `UsageBuilder`, `SettingsForm` and their proofs.
7. *(done)* The compositions `ServerJobs` and `WebClient`, and that they keep what their parts keep.
8. `Sessions`: creation, expiry and clean-up, logout. `VersionConstraint`: the compatibility function against a reference definition
   over bounded versions.
9. The import form of the page (which sends an upload after the version is created, or an import).
10. *(done)* `TypeOK`, `NoHalfIndexedVersion`, `LatestIsEligible` and `TransactionsKeepLatestRight` of `VersionRequests`, for any number of
    threads; and that the requests, one at a time, implement `VersionIndex`.
