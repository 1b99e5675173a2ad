--------------------------- MODULE DatabaseSchema ---------------------------
(***************************************************************************)
(* The tables of the node's database, as its sixty migrations make them:   *)
(* each migration with its statements, up and down, in the order of their  *)
(* names, and the boots that run them.  NodeBoot has what umzug does with  *)
(* migrations of every kind next to the other modules; here are the ones   *)
(* there are, and what each statement needs of the tables it finds.        *)
(*                                                                         *)
(* MySQL commits every statement that changes a table at once, also those  *)
(* between transaction() and commit().  Of a column its name is kept and   *)
(* whether a row needs a value for it (NOT NULL without a default) and     *)
(* whether it is of type TEXT, which an index cannot have.  Rows are left  *)
(* out: a statement that fails on the rows it finds is a DatabaseFault.    *)
(***************************************************************************)
EXTENDS Naturals, Sequences, FiniteSets, SequencesExt, TLC

CONSTANTS
    Releases,           \* how many migrations the releases of the node have
    MaxDatabaseFaults   \* bound: failing statements and deaths of the process

VARIABLES
    database,       \* the tables, their columns, references between them, indexes
    release,        \* the one that is installed: how many migrations it has
    ran,            \* how many migrations sequelize_meta has: always the first ones
    upgrade,        \* how far the boot is: "off", "up", "down" or "done"
    next,           \* the next statement of the migration that is run or reverted
    halfReverted,   \* history: a migration was reverted in part, or not unrecorded
    databaseFaults

databaseVars == <<database, release, ran, upgrade, next, halfReverted, databaseFaults>>

-----------------------------------------------------------------------------
(* Statements of a migration.  A column is its name with what is asked of it. *)

Must(names) == {<<c, {"value"}>> : c \in names}
May(names) == {<<c, {}>> : c \in names}
Text(names) == {<<c, {"text"}>> : c \in names}

CreateTableFor(t, columns, others) ==
    [does |-> "create", table |-> t, columns |-> columns, refers |-> others]
CreateTable(t, columns) == CreateTableFor(t, columns, {})
DropTable(t) == [does |-> "drop", table |-> t]
RenameTable(t, to) == [does |-> "renameTable", table |-> t, to |-> to]
AddColumn(t, columns) == [does |-> "add", table |-> t, columns |-> columns]
RemoveColumn(t, c) == [does |-> "remove", table |-> t, column |-> c]
ChangeColumn(t, columns) == [does |-> "change", table |-> t, columns |-> columns]
RenameColumn(t, c, to) == [does |-> "rename", table |-> t, column |-> c, to |-> to]
AddIndex(t, columns, name) == [does |-> "addIndex", table |-> t, index |-> name, on |-> columns]
RemoveIndex(t, name) == [does |-> "removeIndex", table |-> t, index |-> name]
(* Statements on rows name columns; describeTable fails without the table.  *)
Query(t, columns) == [does |-> "query", table |-> t, on |-> columns]
DescribeTable(t) == Query(t, {})

(* What looks at the table first, or catches the error, and is left out      *)
(* where there is nothing to do.                                             *)
IfNeeded(statement) == [does |-> "ifNeeded", table |-> statement.table, what |-> statement]

Names(columns) == {c[1] : c \in columns}
ColumnsOf(db, t) == {c[2] : c \in {d \in db.columns : d[1] = t}}
IndexesOf(db, t) == {i.index : i \in {j \in db.indexes : j.table = t}}

(* An index has no column of type TEXT. *)
NoText(on, columns) == \A c \in columns : c[1] \in on => "text" \notin c[2]

(* Whether MySQL takes a statement: createTable is IF NOT EXISTS, dropTable   *)
(* IF EXISTS, but not while another table refers to it.                       *)
Accepts(db, s) ==
    CASE s.does = "create" -> s.refers \subseteq db.tables
      [] s.does = "drop" -> \A r \in db.refers : r[2] # s.table
      [] s.does = "renameTable" -> s.table \in db.tables /\ s.to \notin db.tables
      [] s.does = "add" ->
            s.table \in db.tables /\ Names(s.columns) \cap ColumnsOf(db, s.table) = {}
      [] s.does = "remove" -> s.column \in ColumnsOf(db, s.table)
      [] s.does = "change" ->
            /\ Names(s.columns) \subseteq ColumnsOf(db, s.table)
            /\ \A i \in db.indexes : i.table = s.table => NoText(i.on, s.columns)
      [] s.does = "rename" ->
            s.column \in ColumnsOf(db, s.table) /\ s.to \notin ColumnsOf(db, s.table)
      [] s.does = "addIndex" ->
            /\ s.on \subseteq ColumnsOf(db, s.table) /\ s.index \notin IndexesOf(db, s.table)
            /\ NoText(s.on, {<<c[2], c[3]>> : c \in {d \in db.columns : d[1] = s.table}})
      [] s.does = "removeIndex" -> s.index \in IndexesOf(db, s.table)
      [] s.does = "query" -> s.table \in db.tables /\ s.on \subseteq ColumnsOf(db, s.table)

Elsewhere(rows, t) == {r \in rows : r[1] # t}
ColumnsIn(t, columns) == {<<t, c[1], c[2]>> : c \in columns}

(* Indexes without a column of a table: they lose it, and an index of no      *)
(* column is gone.                                                            *)
IndexesWithout(indexes, t, c) ==
    {IF i.table = t THEN [i EXCEPT !.on = @ \ {c}] ELSE i :
        i \in {j \in indexes : j.table = t => j.on # {c}}}

Applied(db, s) ==
    CASE s.does = "create" ->
            IF s.table \in db.tables THEN db
            ELSE [db EXCEPT !.tables = @ \cup {s.table},
                            !.columns = @ \cup ColumnsIn(s.table, s.columns),
                            !.refers = @ \cup {<<s.table, t>> : t \in s.refers}]
      [] s.does = "drop" ->
            [db EXCEPT !.tables = @ \ {s.table}, !.columns = Elsewhere(@, s.table),
                       !.refers = Elsewhere(@, s.table),
                       !.indexes = {i \in @ : i.table # s.table}]
      [] s.does = "renameTable" ->
            LET named(t) == IF t = s.table THEN s.to ELSE t IN
            [db EXCEPT !.tables = {named(t) : t \in @},
                       !.columns = {<<named(c[1]), c[2], c[3]>> : c \in @},
                       !.refers = {<<named(r[1]), named(r[2])>> : r \in @},
                       !.indexes = {[i EXCEPT !.table = named(@)] : i \in @}]
      [] s.does = "add" -> [db EXCEPT !.columns = @ \cup ColumnsIn(s.table, s.columns)]
      [] s.does = "change" ->
            [db EXCEPT !.columns = {c \in @ : c[1] = s.table => c[2] \notin Names(s.columns)}
                                   \cup ColumnsIn(s.table, s.columns)]
      [] s.does = "remove" ->
            [db EXCEPT !.columns = {c \in @ : c[1] = s.table => c[2] # s.column},
                       !.indexes = IndexesWithout(@, s.table, s.column)]
      [] s.does = "rename" ->
            LET named(t, c) == IF t = s.table /\ c = s.column THEN s.to ELSE c IN
            [db EXCEPT !.columns = {<<c[1], named(c[1], c[2]), c[3]>> : c \in @},
                       !.indexes = {[i EXCEPT !.on = {named(i.table, c) : c \in @}] : i \in @}]
      [] s.does = "addIndex" ->
            [db EXCEPT !.indexes = @ \cup {[table |-> s.table, index |-> s.index, on |-> s.on]}]
      [] s.does = "removeIndex" ->
            [db EXCEPT !.indexes = {i \in @ : i.table = s.table => i.index # s.index}]
      [] s.does = "query" -> db

(* A statement that is only made if needed, on the tables as they are.        *)
Needed(db, s) ==
    CASE s.does = "add" -> Names(s.columns) \cap ColumnsOf(db, s.table) = {}
      [] s.does \in {"remove", "rename"} -> s.column \in ColumnsOf(db, s.table)
      [] s.does = "addIndex" -> s.index \notin IndexesOf(db, s.table)
      [] s.does = "removeIndex" -> s.index \in IndexesOf(db, s.table)

Takes(db, s) ==
    IF s.does = "ifNeeded" THEN Needed(db, s.what) => Accepts(db, s.what)
    ELSE Accepts(db, s)

AfterStatement(db, s) ==
    IF s.does # "ifNeeded" THEN Applied(db, s)
    ELSE IF Needed(db, s.what) THEN Applied(db, s.what) ELSE db

-----------------------------------------------------------------------------
(* The migrations. *)

Migration(up, down) == [up |-> up, down |-> down]
Creates(t, columns) == Migration(<<CreateTable(t, columns)>>, <<DropTable(t)>>)
AddsColumn(t, c, asked) ==
    Migration(<<AddColumn(t, {<<c, asked>>})>>, <<RemoveColumn(t, c)>>)

Times == May({"created_at", "updated_at"})
OperationTable == May({"id"}) \cup Must({"operation_id", "status"}) \cup Times
ResponseTable == OperationTable \cup Text({"message"})
KeywordResponseTable == ResponseTable \cup Must({"keyword"})

create_commands ==
    Creates("commands",
            Must({"id", "name", "data", "ready_at", "delay", "status", "transactional"})
            \cup May({"sequence", "started_at", "deadline_at", "period", "parent_id", "retries"})
            \cup Text({"message"}) \cup Times)
create_operation_ids ==
    Creates("operation_ids",
            Must({"operation_id", "status"}) \cup Text({"data"}) \cup May({"timestamp"}) \cup Times)
create_publish == Creates("publish", OperationTable)
create_publish_response == Creates("publish_response", KeywordResponseTable)
create_get == Creates("get", OperationTable)
create_get_response == Creates("get_response", KeywordResponseTable)
create_event ==
    Creates("event", Must({"operation_id", "name", "timestamp"})
                     \cup May({"id", "value1", "value2", "value3"}) \cup Times)
create_ability == Creates("ability", May({"id", "name"}) \cup Times)
(* Mutant: named as the pluralising default of Sequelize would, and not as the *)
(* tables that refer to it expect.                                             *)
create_role_Plural == Creates("roles", May({"id", "name"}) \cup Times)
create_role == Creates("role", May({"id", "name"}) \cup Times)
create_user ==
    Migration(<<CreateTableFor("user", May({"id", "name", "role_id"}) \cup Times, {"role"})>>,
              <<DropTable("user")>>)
create_token ==
    Migration(<<CreateTableFor("token", Must({"id", "name"})
                                   \cup May({"user_id", "expires_at", "revoked"}) \cup Times,
                          {"user"})>>,
              <<DropTable("token")>>)
create_role_ability ==
    Migration(<<CreateTableFor("role_ability", May({"id", "ability_id", "role_id"}) \cup Times,
                          {"ability", "role"})>>,
              <<DropTable("role_ability")>>)
(* Its down empties tables, and waits for none of it. *)
add_predefined_auth_entities ==
    Migration(<<Query("ability", {"id", "name"}), Query("role", {"id", "name"}),
                Query("role_ability", {"ability_id", "role_id"}),
                Query("user", {"name", "role_id"})>>,
              << >>)
create_blockchain_event ==
    Creates("blockchain_event",
            Must({"contract", "blockchain_id", "event", "block", "processed"})
            \cup {<<"data", {"value", "text"}>>} \cup May({"id"}) \cup Times)
create_shard ==
    Creates("shard", Must({"peer_id", "blockchain_id", "ask", "stake", "sha256"})
                     \cup May({"last_seen", "last_dialed"}))
create_blockchain ==
    Creates("blockchain", Must({"blockchain_id", "contract"})
                          \cup May({"last_checked_block", "last_checked_timestamp"}))
update_publish_add_agreement_data ==
    Migration(<<AddColumn("publish", May({"agreementId"})),
                AddColumn("publish", May({"agreementStatus"}))>>,
              <<RemoveColumn("publish", "agreementId"),
                RemoveColumn("publish", "agreementStatus")>>)
update_shard_types ==
    Migration(<<ChangeColumn("shard", May({"ask"})), ChangeColumn("shard", May({"stake"}))>>,
              <<ChangeColumn("shard", May({"ask"})), ChangeColumn("shard", May({"ask"}))>>)
update_commands_types ==
    LET Four == <<ChangeColumn("commands", May({"ready_at"})),
                  ChangeColumn("commands", May({"delay"})),
                  ChangeColumn("commands", May({"started_at"})),
                  ChangeColumn("commands", May({"deadline_at"}))>>
    IN Migration(Four, Four)
update_event_types ==
    Migration(<<ChangeColumn("event", Text({"value1"})), ChangeColumn("event", Text({"value2"})),
                ChangeColumn("event", Text({"value3"}))>>,
              <<ChangeColumn("event", May({"value1"})), ChangeColumn("event", May({"value2"})),
                ChangeColumn("event", May({"value3"}))>>)
AbilitiesGo ==
    <<Query("role_ability", {"ability_id", "role_id"}), Query("ability", {"id", "name"})>>
AbilitiesCome == Reverse(AbilitiesGo)
add_abilities == Migration(AbilitiesCome, AbilitiesGo)
create_update == Creates("update", OperationTable)
update_publish_remove_agreement_data ==
    Migration(<<IfNeeded(RemoveColumn("publish", "agreementId")),
                IfNeeded(RemoveColumn("publish", "agreementStatus"))>>,
              <<AddColumn("publish", May({"agreementId"})),
                AddColumn("publish", May({"agreementStatus"}))>>)
create_update_response == Creates("update_response", KeywordResponseTable)
update_command_period_type ==
    Migration(<<ChangeColumn("commands", May({"period"}))>>,
              <<ChangeColumn("commands", May({"period"}))>>)
create_service_agreements ==
    Creates("service_agreement",
            Must({"blockchain_id", "asset_storage_contract_address", "token_id", "agreement_id",
                  "start_time", "epochs_number", "epoch_length", "score_function_id",
                  "state_index", "assertion_id", "hash_function_id", "keyword",
                  "proof_window_offset_perc"})
            \cup May({"last_commit_epoch", "last_proof_epoch"}))
add_blockchain_event_index ==
    Migration(<<AddIndex("blockchain_event", {"processed"}, "idx_blockchain_event_processed")>>,
              <<RemoveIndex("blockchain_event", "idx_blockchain_event_processed")>>)
event_add_blockchain_id == AddsColumn("event", "blockchain_id", {})
update_abilities == Migration(AbilitiesCome \o AbilitiesGo, AbilitiesGo \o AbilitiesCome)
update_blockchain_id ==
    LET Four == <<Query("shard", {"blockchain_id"}), Query("service_agreement", {"blockchain_id"}),
                  Query("blockchain_event", {"blockchain_id"}),
                  Query("blockchain", {"blockchain_id"})>>
    IN Migration(Four, Four)
remove_blockchain_info == Migration(<<Query("blockchain", {"blockchain_id"})>>, << >>)
shard_add_sha256blobl ==
    Migration(<<DescribeTable("shard"), IfNeeded(AddColumn("shard", May({"sha256_blob"})))>>,
              <<RemoveColumn("shard", "sha256_blob")>>)
remove_sha256Blob ==
    Migration(<<DescribeTable("shard"), IfNeeded(RemoveColumn("shard", "sha256_blob"))>>,
              <<DescribeTable("shard"), IfNeeded(AddColumn("shard", May({"sha256_blob"})))>>)
add_service_agreement_data_source == AddsColumn("service_agreement", "data_source", {})

(* Its down drops a table of another name, which is not there. *)
create_paranet ==
    Migration(<<CreateTable("paranet", Must({"blockchain_id"})
                                  \cup May({"id", "name", "description", "paranet_id", "ka_count"})
                                  \cup Times)>>,
              <<DropTable("Paranet")>>)
create_missed_paranet_asset ==
    Creates("missed_paranet_asset",
            Must({"blockchain_id", "ual", "paranet_ual", "knowledge_asset_id"}) \cup May({"id"})
            \cup Times)
create_publish_paranet == Creates("publish_paranet", OperationTable)

(* A trigger is there once, as an index is. *)
create_paranet_synced_asset ==
    LET synced == "paranet_synced_asset" IN
    Migration(<<CreateTable(synced, Must({"blockchain_id", "ual", "paranet_ual",
                                     "private_assertion_id", "sender", "transaction_hash"})
                               \cup May({"id", "public_assertion_id"}) \cup Times),
                AddIndex(synced, {"created_at"}, "before_insert_paranet_synced_asset"),
                AddIndex(synced, {"updated_at"}, "before_update_paranet_synced_asset"),
                AddIndex(synced, {"paranet_ual", "created_at"}, "idx_paranet_ual_created_at"),
                AddIndex(synced, {"sender"}, "idx_sender"),
                AddIndex(synced, {"paranet_ual"}, "idx_paranet_ual_unique")>>,
              <<DropTable(synced),
                IfNeeded(RemoveIndex(synced, "before_insert_paranet_synced_asset")),
                IfNeeded(RemoveIndex(synced, "before_update_paranet_synced_asset"))>>)
create_publish_paranet_response == Creates("publish_paranet_response", KeywordResponseTable)
change_paranet_synced_asset_nullable ==
    Migration(<<ChangeColumn("paranet_synced_asset", Must({"public_assertion_id"})),
                ChangeColumn("paranet_synced_asset", May({"private_assertion_id"}))>>,
              <<ChangeColumn("paranet_synced_asset", May({"public_assertion_id"})),
                ChangeColumn("paranet_synced_asset", Must({"private_assertion_id"}))>>)
add_error_message == AddsColumn("missed_paranet_asset", "error_message", {"text"})
remove_knowledge_asset_id ==
    Migration(<<RemoveColumn("missed_paranet_asset", "knowledge_asset_id")>>,
              <<AddColumn("missed_paranet_asset", Must({"knowledge_asset_id"}))>>)
paranet_synced_asset_optional_fileds ==
    Migration(<<ChangeColumn("paranet_synced_asset", May({"sender"})),
                ChangeColumn("paranet_synced_asset", May({"transaction_hash"}))>>,
              <<ChangeColumn("paranet_synced_asset", Must({"sender"})),
                ChangeColumn("paranet_synced_asset", Must({"transaction_hash"}))>>)
add_synced_data_source == AddsColumn("paranet_synced_asset", "data_source", {"text"})
change_data_source_col_type ==
    Migration(<<ChangeColumn("paranet_synced_asset", May({"data_source"}))>>,
              <<ChangeColumn("paranet_synced_asset", Text({"data_source"}))>>)

NewIndexes ==
    <<AddIndex("shard", {"blockchain_id"}, "shard_blockchain_id_index"),
      AddIndex("shard", {"last_dialed"}, "last_dialed_index"),
      AddIndex("paranet_synced_asset", {"ual"}, "paranet_synced_asset_ual_index"),
      AddIndex("paranet_synced_asset", {"paranet_ual", "data_source"},
               "paranet_ual_data_source_index"),
      AddIndex("paranet", {"blockchain_id", "paranet_id"}, "blockchain_id_paranet_id_index"),
      AddIndex("missed_paranet_asset", {"paranet_ual"}, "paranet_ual_index"),
      AddIndex("missed_paranet_asset", {"ual"}, "missed_paranet_asset_ual_index"),
      AddIndex("event", {"name", "timestamp"}, "name_timestamp_index"),
      AddIndex("event", {"operation_id"}, "event_operation_id_index"),
      AddIndex("commands", {"name", "status"}, "name_status_index"),
      AddIndex("commands", {"status", "started_at"}, "status_started_at_index"),
      AddIndex("get", {"operation_id"}, "get_operation_id_index"),
      AddIndex("publish", {"operation_id"}, "publish_operation_id_index"),
      AddIndex("update", {"operation_id"}, "update_operation_id_index"),
      AddIndex("publish_paranet", {"operation_id"}, "publish_paranet_operation_id_index"),
      AddIndex("get", {"created_at"}, "get_created_at_index"),
      AddIndex("publish", {"created_at"}, "publish_created_at_index"),
      AddIndex("update", {"created_at"}, "update_created_at_index"),
      AddIndex("publish_paranet", {"created_at"}, "publish_paranet_created_at_index"),
      AddIndex("get_response", {"operation_id"}, "get_response_operation_id_index"),
      AddIndex("publish_response", {"operation_id"}, "operation_id_index"),
      AddIndex("update_response", {"operation_id"}, "update_response_operation_id_index"),
      AddIndex("publish_paranet_response", {"operation_id"},
               "publish_paranet_response_operation_id_index"),
      AddIndex("get_response", {"created_at"}, "get_response_created_at_index"),
      AddIndex("publish_response", {"created_at"}, "publish_response_created_at_index"),
      AddIndex("update_response", {"created_at"}, "update_response_created_at_index"),
      AddIndex("publish_paranet_response", {"created_at"},
               "publish_paranet_response_created_at_index"),
      AddIndex("blockchain", {"contract"}, "contract_index")>>
(* What its down calls them: one index otherwise than up does, so that no     *)
(* revert of this migration gets to its end.  It breaks off at that index,    *)
(* with the twenty before it removed and the migration still recorded.        *)
RemovedIndex(index) ==
    IF index = "operation_id_index" THEN "publish_response_operation_id_index" ELSE index
add_indexes_to_tables ==
    Migration([i \in DOMAIN NewIndexes |-> IfNeeded(NewIndexes[i])],
              [i \in DOMAIN NewIndexes |->
                  RemoveIndex(NewIndexes[i].table, RemovedIndex(NewIndexes[i].index))])
rename_keyword_column_to_datasetroot ==
    Migration(<<RenameColumn("publish_response", "keyword", "dataset_root"),
                RenameColumn("get_response", "keyword", "dataset_root")>>,
              <<RenameColumn("publish_response", "dataset_root", "keyword"),
                RenameColumn("get_response", "dataset_root", "keyword")>>)
add_commands_priority == AddsColumn("commands", "priority", {})
add_commands_is_blocking == AddsColumn("commands", "is_blocking", {})
remove_datasetroot_response_table ==
    Migration(<<RemoveColumn("publish_response", "dataset_root"),
                RemoveColumn("get_response", "dataset_root")>>,
              <<AddColumn("publish_response", Must({"dataset_root"})),
                AddColumn("get_response", Must({"dataset_root"}))>>)
update_blockchain_events ==
    LET events == "blockchain_event" IN
    Migration(<<RenameColumn(events, "blockchain_id", "blockchain"),
                ChangeColumn(events, May({"block"})),
                RenameColumn(events, "block", "block_number"),
                AddColumn(events, May({"transaction_index"})),
                AddColumn(events, May({"log_index"})),
                AddColumn(events, May({"contract_address"}))>>,
              <<RenameColumn(events, "block_number", "block"),
                ChangeColumn(events, May({"block"})),
                RenameColumn(events, "blockchain", "blockchain_id"),
                RemoveColumn(events, "transaction_index"),
                RemoveColumn(events, "log_index"), RemoveColumn(events, "contract_address")>>)
update_blockchain_table ==
    Migration(<<DescribeTable("blockchain"),
                IfNeeded(RenameColumn("blockchain", "blockchain_id", "blockchain")),
                Query("blockchain", {"blockchain", "last_checked_block", "last_checked_timestamp"}),
                Query("blockchain", {"blockchain"}), RemoveColumn("blockchain", "contract")>>,
              <<RenameColumn("blockchain", "blockchain", "blockchain_id"),
                AddColumn("blockchain", Must({"contract"})),
                Query("blockchain", {"blockchain_id", "contract"})>>)
create_finality == Creates("finality", OperationTable)
create_finality_response == Creates("finality_response", ResponseTable)
rename_ask ==
    Migration(<<RenameTable("finality", "ask"), RenameTable("finality_response", "ask_response")>>,
              <<RenameTable("ask", "finality"), RenameTable("ask_response", "finality_response")>>)
create_finality_response_again == Creates("finality_response", ResponseTable)
create_finality_status ==
    Migration(<<CreateTable("finality_status", Must({"operation_id"})
                                          \cup May({"id", "ual", "peer_id"}) \cup Times),
                AddIndex("finality_status", {"ual", "peer_id"}, "finality_status_ual_peer_id_uk")>>,
              <<DropTable("finality_status")>>)
create_finality_again == Creates("finality", OperationTable)
add_min_acks_reached_column == AddsColumn("operation_ids", "min_acks_reached", {})
prune_commands == Migration(<<Query("commands", {})>>, << >>)

(* The files of the folder, in the order of their names. *)
DatabaseMigrations ==
    <<create_commands, create_operation_ids, create_publish, create_publish_response,
      create_get, create_get_response, create_event, create_ability, create_role,
      create_user, create_token, create_role_ability, add_predefined_auth_entities,
      create_blockchain_event, create_shard, create_blockchain,
      update_publish_add_agreement_data, update_shard_types, update_commands_types,
      update_event_types, add_abilities, create_update,
      update_publish_remove_agreement_data, create_update_response,
      update_command_period_type, create_service_agreements, add_blockchain_event_index,
      event_add_blockchain_id, update_abilities, update_blockchain_id,
      remove_blockchain_info, shard_add_sha256blobl, remove_sha256Blob,
      add_service_agreement_data_source, create_paranet, create_missed_paranet_asset,
      create_publish_paranet, create_paranet_synced_asset, create_publish_paranet_response,
      change_paranet_synced_asset_nullable, add_error_message, remove_knowledge_asset_id,
      paranet_synced_asset_optional_fileds, add_synced_data_source,
      change_data_source_col_type, add_indexes_to_tables,
      rename_keyword_column_to_datasetroot, add_commands_priority,
      add_commands_is_blocking, remove_datasetroot_response_table,
      update_blockchain_events, update_blockchain_table, create_finality,
      create_finality_response, rename_ask, create_finality_response_again,
      create_finality_status, create_finality_again, add_min_acks_reached_column,
      prune_commands>>

-----------------------------------------------------------------------------
(* What the models of the repositories name.  createdAt is created_at, since  *)
(* they are "underscored".                                                    *)

Timestamps == {"created_at", "updated_at"}
publish_model == {"id", "operation_id", "status"} \cup Timestamps
publish_response_model == {"id", "operation_id", "status", "message"} \cup Timestamps
get_model == publish_model
get_response_model == publish_response_model
update_model == publish_model
update_response_model == publish_response_model
publish_paranet_model == publish_model
publish_paranet_response_model == publish_response_model
ask_model == publish_model
ask_response_model == publish_response_model
finality_model == publish_model
finality_response_model == publish_response_model
finality_status_model == {"id", "operation_id", "ual", "peer_id"} \cup Timestamps
blockchain_event_model ==
    {"id", "contract", "contract_address", "blockchain", "event", "data", "block_number",
     "transaction_index", "log_index", "processed"} \cup Timestamps
blockchain_model == {"blockchain", "last_checked_block", "last_checked_timestamp"}
commands_model ==
    {"id", "name", "data", "priority", "is_blocking", "sequence", "ready_at", "delay",
     "started_at", "deadline_at", "period", "status", "message", "parent_id", "transactional",
     "retries"} \cup Timestamps
event_model ==
    {"id", "operation_id", "blockchain_id", "name", "timestamp", "value1", "value2", "value3"}
    \cup Timestamps
missed_paranet_asset_model ==
    {"id", "blockchain_id", "ual", "paranet_ual", "error_message"} \cup Timestamps
operation_ids_model ==
    {"operation_id", "data", "status", "min_acks_reached", "timestamp"} \cup Timestamps
paranet_synced_asset_model ==
    {"id", "blockchain_id", "ual", "paranet_ual", "public_assertion_id",
     "private_assertion_id", "sender", "transaction_hash", "data_source"} \cup Timestamps
paranet_model ==
    {"id", "name", "description", "paranet_id", "ka_count", "blockchain_id"} \cup Timestamps
shard_model ==
    {"peer_id", "blockchain_id", "ask", "stake", "last_seen", "last_dialed", "sha256"}
token_model == {"id", "revoked", "user_id", "name", "expires_at"} \cup Timestamps
user_model == {"id", "name"} \cup Timestamps

(* getTokenAbilities is a query of its own; the models of the other tables in *)
(* it are not asked for anything.                                             *)
abilities_query ==
    [token |-> {"id", "user_id"}, user |-> {"id", "role_id"}, role |-> {"id"},
     role_ability |-> {"role_id", "ability_id"}, ability |-> {"id", "name"}]

(* The tables whose rows the repositories read and write. *)
repositories ==
    [publish |-> publish_model, publish_response |-> publish_response_model,
     get |-> get_model, get_response |-> get_response_model,
     update |-> update_model, update_response |-> update_response_model,
     publish_paranet |-> publish_paranet_model,
     publish_paranet_response |-> publish_paranet_response_model,
     ask |-> ask_model, ask_response |-> ask_response_model,
     finality |-> finality_model, finality_response |-> finality_response_model,
     finality_status |-> finality_status_model, blockchain_event |-> blockchain_event_model,
     blockchain |-> blockchain_model, commands |-> commands_model, event |-> event_model,
     missed_paranet_asset |-> missed_paranet_asset_model, operation_ids |-> operation_ids_model,
     paranet_synced_asset |-> paranet_synced_asset_model, paranet |-> paranet_model,
     shard |-> shard_model, token |-> token_model, user |-> user_model]

(* Their rows still need a keyword, which no model has: a row can only be     *)
(* written of the other tables.  No operation of the node gets to these two.  *)
NeverWritten == {"update_response", "publish_paranet_response"}

-----------------------------------------------------------------------------
StatementsOf(m, way) ==
    IF way = "up" THEN DatabaseMigrations[m].up ELSE DatabaseMigrations[m].down
AllMigrations == Len(DatabaseMigrations)

ASSUME DatabaseAssumption == Releases \subseteq 1 .. AllMigrations /\ MaxDatabaseFaults \in Nat

NoTables == [tables |-> {}, columns |-> {}, refers |-> {}, indexes |-> {}]

DatabaseInit ==
    /\ release \in Releases /\ ran = 0 /\ database = NoTables
    /\ upgrade = "off" /\ next = 1 /\ halfReverted = FALSE /\ databaseFaults = 0

DatabaseFault ==
    databaseFaults < MaxDatabaseFaults /\ databaseFaults' = databaseFaults + 1

(* The migration that is run, or the one that is reverted. *)
CurrentMigration == IF upgrade = "up" THEN ran + 1 ELSE ran
StatementLeft == next <= Len(StatementsOf(CurrentMigration, upgrade))
NextStatement == StatementsOf(CurrentMigration, upgrade)[next]

(* The node is updated and started again. *)
NewRelease ==
    /\ upgrade \in {"off", "done"}
    /\ \E r \in Releases : r > release /\ release' = r
    /\ upgrade' = "off"
    /\ UNCHANGED <<database, ran, next, halfReverted, databaseFaults>>

UpgradeStarts ==
    /\ upgrade = "off"
    /\ upgrade' = (IF ran = release THEN "done" ELSE "up") /\ next' = 1
    /\ UNCHANGED <<database, release, ran, halfReverted, databaseFaults>>

RunStatement ==
    /\ upgrade \in {"up", "down"} /\ StatementLeft /\ Takes(database, NextStatement)
    /\ database' = AfterStatement(database, NextStatement) /\ next' = next + 1
    /\ UNCHANGED <<release, ran, upgrade, halfReverted, databaseFaults>>

(* umzug writes the name of the migration, and goes on with the next one. *)
RecordMigration ==
    /\ upgrade = "up" /\ ~StatementLeft
    /\ ran' = ran + 1 /\ next' = 1
    /\ upgrade' = (IF ran' = release THEN "done" ELSE "up")
    /\ UNCHANGED <<database, release, halfReverted, databaseFaults>>

(* A statement that is not taken, or fails: down() reverts what was recorded  *)
(* last, and nothing more.                                                    *)
UpgradeFails ==
    /\ upgrade = "up"
    /\ \/ StatementLeft /\ ~Takes(database, NextStatement) /\ UNCHANGED databaseFaults
       \/ DatabaseFault
    /\ upgrade' = (IF ran = 0 THEN "off" ELSE "down") /\ next' = 1
    /\ UNCHANGED <<database, release, ran, halfReverted>>

(* The error is thrown once the migration is reverted: the process ends.      *)
Reverted ==
    /\ upgrade = "down" /\ ~StatementLeft
    /\ ran' = ran - 1 /\ upgrade' = "off" /\ next' = 1
    /\ UNCHANGED <<database, release, halfReverted, databaseFaults>>

(* MySQL refuses to empty a table another one refers to: the error that down  *)
(* does not wait for may end the process before the migration is unrecorded.  *)
RevertFails ==
    /\ upgrade = "down"
    /\ \/ StatementLeft /\ ~Takes(database, NextStatement) /\ UNCHANGED databaseFaults
       \/ DatabaseMigrations[ran] = add_predefined_auth_entities /\ UNCHANGED databaseFaults
       \/ DatabaseFault
    /\ upgrade' = "off" /\ next' = 1 /\ halfReverted' = (halfReverted \/ next > 1)
    /\ UNCHANGED <<database, release, ran>>

UpgradeDies ==
    /\ upgrade = "up" /\ DatabaseFault
    /\ upgrade' = "off" /\ next' = 1
    /\ UNCHANGED <<database, release, ran, halfReverted>>

DatabaseNext ==
    \/ NewRelease \/ UpgradeStarts \/ RunStatement \/ RecordMigration \/ UpgradeFails \/ Reverted
    \/ RevertFails \/ UpgradeDies

DatabaseSpec == DatabaseInit /\ [][DatabaseNext]_databaseVars

-----------------------------------------------------------------------------
DatabaseTypeOK ==
    /\ release \in Releases /\ ran \in 0..release /\ upgrade \in {"off", "up", "down", "done"}
    /\ next \in Nat \ {0} /\ databaseFaults \in 0..MaxDatabaseFaults
    /\ \A c \in database.columns : c[1] \in database.tables /\ c[3] \subseteq {"value", "text"}
    /\ \A r \in database.refers : {r[1], r[2]} \subseteq database.tables
    /\ \A i \in database.indexes : i.on # {} /\ i.on \subseteq ColumnsOf(database, i.table)

(* Each migration fits what the ones before it left: from any installation    *)
(* that was not disturbed no statement of an upgrade is refused.              *)
StatementsFit ==
    databaseFaults = 0 /\ upgrade = "up" /\ StatementLeft => Takes(database, NextStatement)

(* However often an upgrade failed, died, was reverted and run again: a node   *)
(* that gets through it has what its models name, rows can be written by       *)
(* naming nothing else (models, operation-response.js:18), and the indexes are  *)
(* there.  Said of a node none of whose reverts broke off with statements made: *)
(* such a revert leaves a migration recorded that is not all there any more,    *)
(* and every revert of add_indexes_to_tables is one.                           *)
UpToDate == upgrade = "done" /\ release = AllMigrations /\ ~halfReverted

ModelsFit ==
    UpToDate =>
        /\ \A t \in DOMAIN repositories : repositories[t] \subseteq ColumnsOf(database, t)
        /\ \A t \in DOMAIN abilities_query : abilities_query[t] \subseteq ColumnsOf(database, t)
        /\ \A t \in DOMAIN repositories \ NeverWritten :
             {c[2] : c \in {d \in database.columns : d[1] = t /\ "value" \in d[3]}}
                \subseteq repositories[t]

IndexesFit ==
    UpToDate =>
        \A i \in ToSet(NewIndexes) :
            i.on \subseteq ColumnsOf(database, i.table)
                => [table |-> i.table, index |-> i.index, on |-> i.on] \in database.indexes

(* The migrations fit one another, and what they make of the database fits    *)
(* the models that read and write it.                                        *)
DatabaseInv == StatementsFit /\ ModelsFit /\ IndexesFit
=============================================================================
