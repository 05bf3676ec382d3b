---------------------------- MODULE RuntimeConfig ----------------------------
(***************************************************************************)
(* What a deployment's environment makes the processes do:                 *)
(* loadAndValidateConfig of packages/config/src/app-config.ts, run by the  *)
(* API and by the worker when they start, and the conditions under which   *)
(* apps/worker/src/main.ts schedules its jobs and the API's services serve *)
(* a feature.  An operator edits the environment between starts, so the    *)
(* two processes may run with different configurations.                    *)
(*                                                                         *)
(* A variable is unset, blank, ill-formed ("bad": not a number in range,   *)
(* not a URL, too short a secret) or has one of two well-formed values,    *)
(* "low" and "high": FALSE and TRUE of a flag, the smaller and the larger  *)
(* of two numbers, an http and an https URL, the debug and another log     *)
(* level, PENDING and an approved privacy policy, media types the worker   *)
(* cannot and can process.                                                 *)
(***************************************************************************)
EXTENDS Naturals

CONSTANTS
  Deployments, \* environments written to start from
  Edited,      \* variables the operator touches
  MaxEdits,    \* bound: edits
  Down         \* a process that does not run

AppEnvironments == {"development", "test", "staging", "production"}

VARIABLES
  source,      \* the environment of the processes to be started
  running,     \* running[p]: the configuration p was started with, or Down
  edits

configVars == <<source, running, edits>>

Processes == {"api", "worker"}

-----------------------------------------------------------------------------
\* What becomes of each variable.

NonBlank ==
  {"RABBITMQ_VHOST", "REDIS_MASTER_NAME", "S3_BUCKET_QUARANTINE",
   "S3_BUCKET_ORIGINAL", "S3_BUCKET_DERIVATIVE", "OIDC_CLIENT_ID",
   "OIDC_AUDIENCE", "VIETMAP_SERVER_KEY_REF", "VIETMAP_CLIENT_KEY_ALIAS",
   "OTEL_SERVICE_NAME"}

\* Required, and of a given form.
RequiredForm ==
  {"RABBITMQ_ENDPOINTS", "REDIS_SENTINELS", "DATABASE_URL",
   "AUDIT_DATABASE_URL", "PRIVACY_DATABASE_URL", "S3_ENDPOINT", "OIDC_ISSUER",
   "CITIZEN_SESSION_TTL_MINUTES", "CITIZEN_SESSION_ROTATE_AFTER_MINUTES",
   "VIETMAP_BASE_URL", "OTEL_EXPORTER_OTLP_ENDPOINT"}

\* A default stands for an unset variable, but not for a blank one.
Defaulted ==
  {"LOG_LEVEL", "PORT", "OIDC_JWKS_CACHE_TTL_MS", "VIETMAP_TIMEOUT_MS",
   "VIETMAP_QUOTA_WARNING_PCT", "PRIVACY_GRANT_TTL_HOURS"}

\* Read whenever it is not blank, whether its feature is on or not.
CheckedIfPresent ==
  {"MAP_LIFECYCLE_POLL_MS", "SOS_IDEMPOTENCY_TTL_MINUTES",
   "REPORT_IDEMPOTENCY_TTL_MINUTES", "REPORT_SCREENING_POLL_MS",
   "REPORT_SCREENING_BATCH_SIZE", "REPORT_SCREENING_MAX_CANDIDATES_PER_REPORT",
   "TRAFFIC_ALERTS_MAX_CANDIDATES", "TRAFFIC_ALERTS_MAX_RESULTS",
   "OUTBOX_RELAY_POLL_MS", "OUTBOX_RELAY_BATCH_SIZE", "EVIDENCE_MAX_BYTES",
   "EVIDENCE_UPLOAD_URL_TTL_SECONDS", "EVIDENCE_READ_URL_TTL_SECONDS",
   "EVIDENCE_WORKER_POLL_MS", "EVIDENCE_WORKER_BATCH_SIZE",
   "EVIDENCE_ALLOWED_MIME_TYPES"}

\* A feature: what must be given when it is on, those of them whose form is
\* checked only then, the features it stands on, and whether it may be on
\* in staging and production.
Feature(needs, checked, on, hosted) ==
  [needs |-> needs, checked |-> checked, on |-> on, hosted |-> hosted]

EvidenceNeeds ==
  {"EVIDENCE_ALLOWED_MIME_TYPES", "EVIDENCE_MAX_BYTES",
   "EVIDENCE_UPLOAD_URL_TTL_SECONDS", "EVIDENCE_READ_URL_TTL_SECONDS",
   "EVIDENCE_WORKER_POLL_MS", "EVIDENCE_WORKER_BATCH_SIZE",
   "EVIDENCE_CAPABILITY_SECRET", "S3_REGION", "S3_ACCESS_KEY", "S3_SECRET_KEY",
   "S3_FORCE_PATH_STYLE"}

MockNeeds ==
  {"OIDC_MOCK_TOKEN", "OIDC_MOCK_SUBJECT", "OIDC_MOCK_ROLE",
   "OIDC_MOCK_MAX_DATA_CLASS", "OIDC_MOCK_SESSION_ID"}

Features ==
  [MAP_LIFECYCLE_WORKER_ENABLED |-> Feature({"MAP_LIFECYCLE_POLL_MS"}, {}, {}, TRUE),
   SOS_INGEST_ENABLED |->
     Feature({"SOS_INTAKE_AREA_ID", "SOS_IDEMPOTENCY_TTL_MINUTES"},
             {"SOS_INTAKE_AREA_ID"}, {}, TRUE),
   REPORT_INTAKE_ENABLED |->
     Feature({"REPORT_INTAKE_AREA_ID", "REPORT_IDEMPOTENCY_TTL_MINUTES"},
             {"REPORT_INTAKE_AREA_ID"}, {}, FALSE),
   REPORT_EVIDENCE_LINKING_ENABLED |->
     Feature({"REPORT_CAPABILITY_SECRET"}, {"REPORT_CAPABILITY_SECRET"},
             {"REPORT_INTAKE_ENABLED", "EVIDENCE_PIPELINE_ENABLED"}, FALSE),
   REPORT_SCREENING_WORKER_ENABLED |->
     Feature({"REPORT_SCREENING_POLL_MS", "REPORT_SCREENING_BATCH_SIZE",
              "REPORT_SCREENING_MAX_CANDIDATES_PER_REPORT"}, {}, {}, FALSE),
   TRAFFIC_ALERTS_ENABLED |->
     Feature({"TRAFFIC_ALERTS_MAX_CANDIDATES", "TRAFFIC_ALERTS_MAX_RESULTS"},
             {}, {}, FALSE),
   OUTBOX_RELAY_ENABLED |->
     Feature({"OUTBOX_RELAY_POLL_MS", "OUTBOX_RELAY_BATCH_SIZE"}, {}, {}, TRUE),
   EVIDENCE_PIPELINE_ENABLED |->
     Feature(EvidenceNeeds, {}, {"EVIDENCE_USE_FAKE_ANTIVIRUS"}, FALSE),
   EVIDENCE_USE_FAKE_ANTIVIRUS |-> Feature({}, {}, {}, FALSE),
   OIDC_USE_MOCK |->
     Feature(MockNeeds, {"OIDC_MOCK_ROLE", "OIDC_MOCK_MAX_DATA_CLASS"}, {}, FALSE)]

\* Flags that turn on no feature with needs of its own.
PlainFlags ==
  {"VIETMAP_USE_FAKE_ADAPTER", "RETENTION_AUTO_DELETE_ENABLED",
   "S3_FORCE_PATH_STYLE"}

Flags == DOMAIN Features \union PlainFlags

Names ==
  NonBlank \union RequiredForm \union Defaulted \union CheckedIfPresent
    \union Flags \union UNION {Features[f].needs : f \in DOMAIN Features}
    \union {"APP_ENV", "PRIVACY_POLICY_VERSION", "VAULT_KEY_REF", "OIDC_JWKS_URI"}

Values(n) ==
  IF n = "APP_ENV" THEN AppEnvironments \union {"unset", "bad"}
                   ELSE {"unset", "blank", "bad", "low", "high"}

-----------------------------------------------------------------------------
\* required, boolean, and the https-only test of the identity URLs.
Given(env, n) == env[n] \notin {"unset", "blank"}

Enabled(env, flag) == env[flag] = "high"

Hosted(env) == env["APP_ENV"] \in {"staging", "production"}

SafeUrl(env, n) == Given(env, n) /\ env[n] # "bad" /\ (Hosted(env) => env[n] = "high")

\* Deviation: only the parameters a feature's main path reads are required.
FeatureIsRoughlyWhole(env, flag) ==
  LET f == Features[flag]
  IN  Enabled(env, flag) =>
        /\ f.hosted \/ ~Hosted(env)
        /\ \A n \in f.needs \ {"REPORT_SCREENING_MAX_CANDIDATES_PER_REPORT"} :
             Given(env, n)
        /\ \A n \in f.checked : env[n] # "bad"
        /\ \A g \in f.on : Enabled(env, g)

FeatureIsWhole(env, flag) ==
  LET f == Features[flag]
  IN  Enabled(env, flag) =>
        /\ f.hosted \/ ~Hosted(env)
        /\ \A n \in f.needs : Given(env, n)
        /\ \A n \in f.checked : env[n] # "bad"
        /\ \A g \in f.on : Enabled(env, g)

\* loadAndValidateConfig returns instead of throwing.
Accepts(env) ==
  /\ env["APP_ENV"] \in AppEnvironments
  /\ \A n \in NonBlank \union RequiredForm : Given(env, n)
  /\ \A n \in RequiredForm \union CheckedIfPresent \union Flags : env[n] # "bad"
  /\ \A n \in Defaulted : env[n] \notin {"blank", "bad"}
  /\ env["EVIDENCE_CAPABILITY_SECRET"] \notin {"blank", "bad"}
  /\ \A f \in DOMAIN Features : FeatureIsWhole(env, f)
  /\ ~(env["APP_ENV"] = "production" /\ env["LOG_LEVEL"] = "low")
  /\ env["PRIVACY_POLICY_VERSION"] \in {"bad", "high"} => Given(env, "VAULT_KEY_REF")
  /\ ~Enabled(env, "RETENTION_AUTO_DELETE_ENABLED")
  /\ ~(env["TRAFFIC_ALERTS_MAX_CANDIDATES"] = "low"
         /\ env["TRAFFIC_ALERTS_MAX_RESULTS"] = "high")
  /\ Enabled(env, "EVIDENCE_PIPELINE_ENABLED")
       => env["EVIDENCE_ALLOWED_MIME_TYPES"] = "high"
  /\ env["VIETMAP_BASE_URL"] = "high"
  /\ SafeUrl(env, "OIDC_ISSUER")
  /\ Enabled(env, "OIDC_USE_MOCK") \/ SafeUrl(env, "OIDC_JWKS_URI")
  /\ env["CITIZEN_SESSION_ROTATE_AFTER_MINUTES"] = "low"
  /\ env["CITIZEN_SESSION_TTL_MINUTES"] = "high"

-----------------------------------------------------------------------------
ConfigInit ==
  /\ source \in Deployments
  /\ running = [p \in Processes |-> Down]
  /\ edits = 0

\* The operator sets, clears or mistypes a variable.
EditSource(n, v) ==
  /\ edits < MaxEdits /\ edits' = edits + 1
  /\ source[n] # v
  /\ source' = [source EXCEPT ![n] = v]
  /\ UNCHANGED running

\* A process is (re)started: it parses its environment before anything else,
\* and does not start when that throws.
Boot(p) ==
  /\ running' = [running EXCEPT ![p] = IF Accepts(source) THEN source ELSE Down]
  /\ UNCHANGED <<source, edits>>

ConfigNext ==
  \/ \E n \in Edited : \E v \in Values(n) : EditSource(n, v)
  \/ \E p \in Processes : Boot(p)

ConfigSpec == ConfigInit /\ [][ConfigNext]_configVars

-----------------------------------------------------------------------------
\* Where a process asks whether a feature is there: the flag, the other
\* flags and the parameters it wants to see, or else it leaves the job out
\* or answers CONFIGURATION_BLOCKED.
Gate(by, flag, flags, needs) ==
  [by |-> by, flag |-> flag, flags |-> flags, needs |-> needs]

Storage == {"S3_REGION", "S3_ACCESS_KEY", "S3_SECRET_KEY"}

WorkerGates ==
  {Gate("worker", "MAP_LIFECYCLE_WORKER_ENABLED", {}, {"MAP_LIFECYCLE_POLL_MS"}),
   Gate("worker", "OUTBOX_RELAY_ENABLED", {},
        {"OUTBOX_RELAY_POLL_MS", "OUTBOX_RELAY_BATCH_SIZE"}),
   Gate("worker", "EVIDENCE_PIPELINE_ENABLED", {"EVIDENCE_USE_FAKE_ANTIVIRUS"},
        Storage \union {"EVIDENCE_WORKER_POLL_MS", "EVIDENCE_WORKER_BATCH_SIZE",
                        "EVIDENCE_MAX_BYTES"}),
   Gate("worker", "REPORT_SCREENING_WORKER_ENABLED", {},
        {"REPORT_SCREENING_POLL_MS", "REPORT_SCREENING_BATCH_SIZE",
         "REPORT_SCREENING_MAX_CANDIDATES_PER_REPORT"})}

SosGate == Gate("api", "SOS_INGEST_ENABLED", {},
                {"SOS_INTAKE_AREA_ID", "SOS_IDEMPOTENCY_TTL_MINUTES"})
ReportGate == Gate("api", "REPORT_INTAKE_ENABLED", {},
                   {"REPORT_INTAKE_AREA_ID", "REPORT_IDEMPOTENCY_TTL_MINUTES"})
LinkingGate == Gate("api", "REPORT_EVIDENCE_LINKING_ENABLED", {},
                    {"REPORT_CAPABILITY_SECRET"})
AlertsGate == Gate("api", "TRAFFIC_ALERTS_ENABLED", {},
                   {"TRAFFIC_ALERTS_MAX_CANDIDATES", "TRAFFIC_ALERTS_MAX_RESULTS"})
UploadGate == Gate("api", "EVIDENCE_PIPELINE_ENABLED", {},
                   Storage \union {"EVIDENCE_MAX_BYTES", "EVIDENCE_CAPABILITY_SECRET",
                                   "EVIDENCE_UPLOAD_URL_TTL_SECONDS"})
ReadGate == Gate("api", "EVIDENCE_PIPELINE_ENABLED", {},
                 Storage \union {"EVIDENCE_READ_URL_TTL_SECONDS"})
MockGate == Gate("api", "OIDC_USE_MOCK", {}, MockNeeds)

Gates == WorkerGates \union {SosGate, ReportGate, LinkingGate, AlertsGate,
                             UploadGate, ReadGate, MockGate}

IsOpen(env, gate) ==
  /\ \A f \in gate.flags : Enabled(env, f)
  /\ \A n \in gate.needs : Given(env, n)

\* Every feature whose flag a running process was given is really served by
\* it: no gate further in, in the worker's main, in a module or in a service,
\* finds a parameter missing that the loader let pass, so that uploads the
\* API takes are not left unscanned by a worker started from the same
\* environment.  And no process runs local-only features or stand-ins for
\* antivirus and identity in staging or production.
RunningIsWhole ==
  \A p \in Processes : running[p] # Down =>
    /\ \A g \in Gates :
         g.by = p /\ Enabled(running[p], g.flag) => IsOpen(running[p], g)
    /\ \A f \in DOMAIN Features :
         Enabled(running[p], f) /\ Hosted(running[p]) => Features[f].hosted

=============================================================================
