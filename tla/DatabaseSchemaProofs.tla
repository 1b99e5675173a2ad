------------------------------ MODULE DatabaseSchemaProofs -----------------------------
(***************************************************************************)
(* Proofs about DatabaseSchema, for every choice of releases and any       *)
(* number of failing statements and deaths of the process: the migrations  *)
(* of the node fit one another, and what they leave of the tables fits the *)
(* models.                                                                 *)
(***************************************************************************)
EXTENDS DatabaseSchema, Integers, SequenceTheorems, TLAPS

-----------------------------------------------------------------------------
(* The database: what every statement of the migrations is like.            *)

GoodColumns(columns) == \A c \in columns : c[2] \subseteq {"value", "text"}

Plain(s) ==
    /\ s.does \in {"create", "drop", "renameTable", "add", "remove", "change", "rename",
                   "addIndex", "removeIndex", "query"}
    /\ s.does \in {"create", "add", "change"} => GoodColumns(s.columns)
    /\ s.does = "addIndex" => s.on # {}

GoodStatement(s) == Plain(IF s.does = "ifNeeded" THEN s.what ELSE s)

AllGood(statements) == \A k \in 1..Len(statements) : GoodStatement(statements[k])

GoodMigration(m) == AllGood(m.up) /\ AllGood(m.down)

LEMMA ColumnsAsked ==
    /\ \A names : GoodColumns(Must(names)) /\ GoodColumns(May(names)) /\ GoodColumns(Text(names))
    /\ \A a, b : GoodColumns(a) /\ GoodColumns(b) => GoodColumns(a \cup b)
    /\ \A c : GoodColumns({<<c, {}>>}) /\ GoodColumns({<<c, {"text"}>>})
              /\ GoodColumns({<<c, {"value", "text"}>>})
BY DEF GoodColumns, Must, May, Text

LEMMA StatementsGood ==
    /\ \A t, columns : GoodColumns(columns) =>
          /\ GoodStatement(CreateTable(t, columns)) /\ GoodStatement(AddColumn(t, columns))
          /\ GoodStatement(ChangeColumn(t, columns))
          /\ GoodStatement(IfNeeded(AddColumn(t, columns)))
          /\ \A others : GoodStatement(CreateTableFor(t, columns, others))
    /\ \A t : GoodStatement(DropTable(t)) /\ GoodStatement(DescribeTable(t))
    /\ \A t, x : /\ GoodStatement(RenameTable(t, x)) /\ GoodStatement(RemoveColumn(t, x))
                 /\ GoodStatement(RemoveIndex(t, x)) /\ GoodStatement(Query(t, x))
                 /\ GoodStatement(IfNeeded(RemoveColumn(t, x)))
                 /\ GoodStatement(IfNeeded(RemoveIndex(t, x)))
    /\ \A t, x, y : GoodStatement(RenameColumn(t, x, y)) /\ GoodStatement(IfNeeded(RenameColumn(t, x, y)))
    /\ \A t, on, x : on # {} => GoodStatement(AddIndex(t, on, x)) /\ GoodStatement(IfNeeded(AddIndex(t, on, x)))
<1> USE DEF GoodStatement, Plain
<1>1. \A t, columns : GoodColumns(columns) =>
          /\ GoodStatement(CreateTable(t, columns)) /\ GoodStatement(AddColumn(t, columns))
          /\ GoodStatement(ChangeColumn(t, columns))
          /\ GoodStatement(IfNeeded(AddColumn(t, columns)))
          /\ \A others : GoodStatement(CreateTableFor(t, columns, others))
    BY DEF CreateTable, CreateTableFor, AddColumn, ChangeColumn, IfNeeded
<1>2. \A t : GoodStatement(DropTable(t)) /\ GoodStatement(DescribeTable(t))
    BY DEF DropTable, DescribeTable, Query
<1>3. \A t, x : /\ GoodStatement(RenameTable(t, x)) /\ GoodStatement(RemoveColumn(t, x))
                /\ GoodStatement(RemoveIndex(t, x)) /\ GoodStatement(Query(t, x))
                /\ GoodStatement(IfNeeded(RemoveColumn(t, x)))
                /\ GoodStatement(IfNeeded(RemoveIndex(t, x)))
    BY DEF RenameTable, RemoveColumn, RemoveIndex, Query, IfNeeded
<1>4. \A t, x, y : GoodStatement(RenameColumn(t, x, y)) /\ GoodStatement(IfNeeded(RenameColumn(t, x, y)))
    BY DEF RenameColumn, IfNeeded
<1>5. \A t, on, x : on # {} => GoodStatement(AddIndex(t, on, x)) /\ GoodStatement(IfNeeded(AddIndex(t, on, x)))
    BY DEF AddIndex, IfNeeded
<1> QED
    BY <1>1, <1>2, <1>3, <1>4, <1>5

LEMMA ListsGood ==
    /\ AllGood(<< >>)
    /\ \A a : GoodStatement(a) => AllGood(<<a>>)
    /\ \A a, b : GoodStatement(a) /\ GoodStatement(b) => AllGood(<<a, b>>)
    /\ \A a, b, c : GoodStatement(a) /\ GoodStatement(b) /\ GoodStatement(c) => AllGood(<<a, b, c>>)
    /\ \A a, b, c, d :
          GoodStatement(a) /\ GoodStatement(b) /\ GoodStatement(c) /\ GoodStatement(d)
              => AllGood(<<a, b, c, d>>)
    /\ \A a, b, c, d, e :
          GoodStatement(a) /\ GoodStatement(b) /\ GoodStatement(c) /\ GoodStatement(d)
          /\ GoodStatement(e) => AllGood(<<a, b, c, d, e>>)
    /\ \A a, b, c, d, e, f :
          GoodStatement(a) /\ GoodStatement(b) /\ GoodStatement(c) /\ GoodStatement(d)
          /\ GoodStatement(e) /\ GoodStatement(f) => AllGood(<<a, b, c, d, e, f>>)
BY DEF AllGood

LEMMA MigrationsGood ==
    /\ \A up, down : AllGood(up) /\ AllGood(down) => GoodMigration(Migration(up, down))
    /\ \A t, columns : GoodColumns(columns) => GoodMigration(Creates(t, columns))
    /\ \A t, c : GoodMigration(AddsColumn(t, c, {})) /\ GoodMigration(AddsColumn(t, c, {"text"}))
<1>1. \A up, down : AllGood(up) /\ AllGood(down) => GoodMigration(Migration(up, down))
    BY DEF GoodMigration, Migration
<1>2. \A t, columns : GoodColumns(columns) => GoodMigration(Creates(t, columns))
    BY <1>1, StatementsGood, ListsGood DEF Creates
<1>3. \A t, c : GoodMigration(AddsColumn(t, c, {})) /\ GoodMigration(AddsColumn(t, c, {"text"}))
    BY <1>1, StatementsGood, ListsGood, ColumnsAsked DEF AddsColumn
<1> QED
    BY <1>1, <1>2, <1>3

LEMMA MostMigrationsGood ==
    /\ GoodMigration(create_commands)
    /\ GoodMigration(create_operation_ids)
    /\ GoodMigration(create_publish)
    /\ GoodMigration(create_publish_response)
    /\ GoodMigration(create_get)
    /\ GoodMigration(create_get_response)
    /\ GoodMigration(create_event)
    /\ GoodMigration(create_ability)
    /\ GoodMigration(create_role)
    /\ GoodMigration(create_blockchain_event)
    /\ GoodMigration(create_shard)
    /\ GoodMigration(create_blockchain)
    /\ GoodMigration(create_update)
    /\ GoodMigration(create_update_response)
    /\ GoodMigration(create_service_agreements)
    /\ GoodMigration(create_missed_paranet_asset)
    /\ GoodMigration(create_publish_paranet)
    /\ GoodMigration(create_publish_paranet_response)
    /\ GoodMigration(create_finality)
    /\ GoodMigration(create_finality_response)
    /\ GoodMigration(create_finality_response_again)
    /\ GoodMigration(create_finality_again)
    /\ GoodMigration(event_add_blockchain_id)
    /\ GoodMigration(add_service_agreement_data_source)
    /\ GoodMigration(add_error_message)
    /\ GoodMigration(add_synced_data_source)
    /\ GoodMigration(add_commands_priority)
    /\ GoodMigration(add_commands_is_blocking)
    /\ GoodMigration(add_min_acks_reached_column)
    /\ GoodMigration(create_user)
    /\ GoodMigration(create_token)
    /\ GoodMigration(create_role_ability)
    /\ GoodMigration(add_predefined_auth_entities)
    /\ GoodMigration(update_publish_add_agreement_data)
    /\ GoodMigration(update_shard_types)
    /\ GoodMigration(update_commands_types)
    /\ GoodMigration(update_event_types)
    /\ GoodMigration(update_publish_remove_agreement_data)
    /\ GoodMigration(update_command_period_type)
    /\ GoodMigration(add_blockchain_event_index)
    /\ GoodMigration(update_blockchain_id)
    /\ GoodMigration(remove_blockchain_info)
    /\ GoodMigration(shard_add_sha256blobl)
    /\ GoodMigration(remove_sha256Blob)
    /\ GoodMigration(create_paranet)
    /\ GoodMigration(change_paranet_synced_asset_nullable)
    /\ GoodMigration(remove_knowledge_asset_id)
    /\ GoodMigration(paranet_synced_asset_optional_fileds)
    /\ GoodMigration(change_data_source_col_type)
    /\ GoodMigration(rename_keyword_column_to_datasetroot)
    /\ GoodMigration(remove_datasetroot_response_table)
    /\ GoodMigration(rename_ask)
    /\ GoodMigration(create_finality_status)
    /\ GoodMigration(prune_commands)
<1>1. /\ GoodMigration(create_commands)
      /\ GoodMigration(create_operation_ids)
      /\ GoodMigration(create_publish)
      /\ GoodMigration(create_publish_response)
      /\ GoodMigration(create_get)
      /\ GoodMigration(create_get_response)
      /\ GoodMigration(create_event)
      /\ GoodMigration(create_ability)
    BY MigrationsGood, StatementsGood, ListsGood, ColumnsAsked
        DEF create_commands, create_operation_ids, create_publish, create_publish_response,
            create_get, create_get_response, create_event, create_ability, OperationTable,
            ResponseTable, KeywordResponseTable, Times
<1>2. /\ GoodMigration(create_role)
      /\ GoodMigration(create_blockchain_event)
      /\ GoodMigration(create_shard)
      /\ GoodMigration(create_blockchain)
      /\ GoodMigration(create_update)
      /\ GoodMigration(create_update_response)
      /\ GoodMigration(create_service_agreements)
      /\ GoodMigration(create_missed_paranet_asset)
    BY MigrationsGood, StatementsGood, ListsGood, ColumnsAsked
        DEF create_role, create_blockchain_event, create_shard, create_blockchain,
            create_update, create_update_response, create_service_agreements,
            create_missed_paranet_asset, OperationTable, ResponseTable, KeywordResponseTable,
            Times
<1>3. /\ GoodMigration(create_publish_paranet)
      /\ GoodMigration(create_publish_paranet_response)
      /\ GoodMigration(create_finality)
      /\ GoodMigration(create_finality_response)
      /\ GoodMigration(create_finality_response_again)
      /\ GoodMigration(create_finality_again)
    BY MigrationsGood, StatementsGood, ListsGood, ColumnsAsked
        DEF create_publish_paranet, create_publish_paranet_response, create_finality,
            create_finality_response, create_finality_response_again, create_finality_again,
            OperationTable, ResponseTable, KeywordResponseTable, Times
<1>4. /\ GoodMigration(event_add_blockchain_id)
      /\ GoodMigration(add_service_agreement_data_source)
      /\ GoodMigration(add_error_message)
      /\ GoodMigration(add_synced_data_source)
      /\ GoodMigration(add_commands_priority)
      /\ GoodMigration(add_commands_is_blocking)
      /\ GoodMigration(add_min_acks_reached_column)
    BY MigrationsGood, StatementsGood, ListsGood, ColumnsAsked
        DEF event_add_blockchain_id, add_service_agreement_data_source, add_error_message,
            add_synced_data_source, add_commands_priority, add_commands_is_blocking,
            add_min_acks_reached_column
<1>5. /\ GoodMigration(create_user)
      /\ GoodMigration(create_token)
      /\ GoodMigration(create_role_ability)
      /\ GoodMigration(add_predefined_auth_entities)
      /\ GoodMigration(update_publish_add_agreement_data)
      /\ GoodMigration(update_shard_types)
    BY MigrationsGood, StatementsGood, ListsGood, ColumnsAsked
        DEF create_user, create_token, create_role_ability, add_predefined_auth_entities,
            update_publish_add_agreement_data, update_shard_types, Times
<1>6. /\ GoodMigration(update_commands_types)
      /\ GoodMigration(update_event_types)
      /\ GoodMigration(update_publish_remove_agreement_data)
      /\ GoodMigration(update_command_period_type)
      /\ GoodMigration(add_blockchain_event_index)
      /\ GoodMigration(update_blockchain_id)
    BY MigrationsGood, StatementsGood, ListsGood, ColumnsAsked
        DEF update_commands_types, update_event_types, update_publish_remove_agreement_data,
            update_command_period_type, add_blockchain_event_index, update_blockchain_id, Times
<1>7. /\ GoodMigration(remove_blockchain_info)
      /\ GoodMigration(shard_add_sha256blobl)
      /\ GoodMigration(remove_sha256Blob)
      /\ GoodMigration(create_paranet)
      /\ GoodMigration(change_paranet_synced_asset_nullable)
      /\ GoodMigration(remove_knowledge_asset_id)
    BY MigrationsGood, StatementsGood, ListsGood, ColumnsAsked
        DEF remove_blockchain_info, shard_add_sha256blobl, remove_sha256Blob, create_paranet,
            change_paranet_synced_asset_nullable, remove_knowledge_asset_id, Times
<1>8. /\ GoodMigration(paranet_synced_asset_optional_fileds)
      /\ GoodMigration(change_data_source_col_type)
      /\ GoodMigration(rename_keyword_column_to_datasetroot)
      /\ GoodMigration(remove_datasetroot_response_table)
      /\ GoodMigration(rename_ask)
      /\ GoodMigration(create_finality_status)
    BY MigrationsGood, StatementsGood, ListsGood, ColumnsAsked
        DEF paranet_synced_asset_optional_fileds, change_data_source_col_type,
            rename_keyword_column_to_datasetroot, remove_datasetroot_response_table,
            rename_ask, create_finality_status, Times
<1>9. /\ GoodMigration(prune_commands)
    BY MigrationsGood, StatementsGood, ListsGood, ColumnsAsked
        DEF prune_commands, Times
<1> QED
    BY <1>1, <1>2, <1>3, <1>4, <1>5, <1>6, <1>7, <1>8, <1>9

LEMMA JoinedGood ==
    ASSUME NEW S, NEW s \in Seq(S), NEW t \in Seq(S), AllGood(s), AllGood(t)
    PROVE  AllGood(s \o t)
<1>1. /\ Len(s \o t) = Len(s) + Len(t) /\ Len(s) \in Nat /\ Len(t) \in Nat
      /\ \A k \in 1..Len(s) : (s \o t)[k] = s[k]
      /\ \A k \in 1..Len(t) : (s \o t)[Len(s) + k] = t[k]
    BY ConcatProperties
<1> SUFFICES ASSUME NEW k \in 1..Len(s \o t) PROVE GoodStatement((s \o t)[k])
    BY DEF AllGood
<1>2. CASE k <= Len(s)
    BY <1>1, <1>2 DEF AllGood
<1>3. CASE k > Len(s)
  <2>1. k - Len(s) \in 1..Len(t) /\ k = Len(s) + (k - Len(s))
      BY <1>1, <1>3
  <2> QED
      BY <2>1, <1>1 DEF AllGood
<1> QED
    BY <1>1, <1>2, <1>3

LEMMA ListOf28 ==
    ASSUME NEW f, DOMAIN f = 1..28, f = [i \in 1..28 |-> f[i]]
    PROVE  Len(f) = 28
<1> DEFINE T == {f[i] : i \in 1..28}
<1>1. f \in [1..28 -> T]
    OBVIOUS
<1> HIDE DEF T
<1>2. f \in Seq(T)
    BY <1>1, SeqDef
<1>3. Len(f) \in Nat /\ DOMAIN f = 1..Len(f)
    BY <1>2, LenProperties
<1>4. 1..Len(f) = 1..28
    BY <1>3
<1>5. 28 \in 1..Len(f) /\ (Len(f) >= 1 => Len(f) \in 1..28)
    BY <1>3, <1>4
<1> QED
    BY <1>3, <1>5

LEMMA OtherMigrationsGood ==
    /\ GoodMigration(add_abilities) /\ GoodMigration(update_abilities)
    /\ GoodMigration(create_paranet_synced_asset) /\ GoodMigration(add_indexes_to_tables)
    /\ GoodMigration(update_blockchain_events) /\ GoodMigration(update_blockchain_table)
<1>1. GoodMigration(add_abilities) /\ GoodMigration(update_abilities)
  <2> DEFINE a == Query("role_ability", {"ability_id", "role_id"})
             b == Query("ability", {"id", "name"})
  <2>1. GoodStatement(a) /\ GoodStatement(b)
      BY StatementsGood
  <2> HIDE DEF a, b
  <2>2. AbilitiesGo = <<a, b>> /\ AbilitiesCome = <<b, a>>
      BY DEF AbilitiesGo, AbilitiesCome, Reverse, a, b
  <2>3. AllGood(AbilitiesGo) /\ AllGood(AbilitiesCome)
      BY <2>1, <2>2, ListsGood
  <2>4. AllGood(AbilitiesCome \o AbilitiesGo) /\ AllGood(AbilitiesGo \o AbilitiesCome)
    <3>1. AbilitiesGo \in Seq({a, b}) /\ AbilitiesCome \in Seq({a, b})
        BY <2>2
    <3> QED
        BY <3>1, <2>3, JoinedGood
  <2> QED
      BY <2>3, <2>4, MigrationsGood DEF add_abilities, update_abilities
<1>2. GoodMigration(create_paranet_synced_asset)
    BY MigrationsGood, StatementsGood, ListsGood, ColumnsAsked DEF create_paranet_synced_asset, Times
<1>3. GoodMigration(add_indexes_to_tables)
  <2> DEFINE up == [i \in DOMAIN NewIndexes |-> IfNeeded(NewIndexes[i])]
             down == [i \in DOMAIN NewIndexes |-> RemoveIndex(NewIndexes[i].table, RemovedIndex(NewIndexes[i].index))]
  <2>1. DOMAIN NewIndexes = 1..28
      BY DEF NewIndexes
  <2>2. \A i \in 1..28 : GoodStatement(IfNeeded(NewIndexes[i]))
    <3> DEFINE Is(s) == GoodStatement(IfNeeded(s))
    <3>1. \A t, x, c : Is(AddIndex(t, {c}, x))
        BY StatementsGood
    <3>2. \A t, x, c, d : Is(AddIndex(t, {c, d}, x))
        BY StatementsGood
    <3> HIDE DEF Is
    <3>3. /\ Is(NewIndexes[1]) /\ Is(NewIndexes[2]) /\ Is(NewIndexes[3]) /\ Is(NewIndexes[4])
          /\ Is(NewIndexes[5]) /\ Is(NewIndexes[6]) /\ Is(NewIndexes[7]) /\ Is(NewIndexes[8])
          /\ Is(NewIndexes[9]) /\ Is(NewIndexes[10]) /\ Is(NewIndexes[11]) /\ Is(NewIndexes[12])
          /\ Is(NewIndexes[13]) /\ Is(NewIndexes[14]) /\ Is(NewIndexes[15]) /\ Is(NewIndexes[16])
          /\ Is(NewIndexes[17]) /\ Is(NewIndexes[18]) /\ Is(NewIndexes[19]) /\ Is(NewIndexes[20])
          /\ Is(NewIndexes[21]) /\ Is(NewIndexes[22]) /\ Is(NewIndexes[23]) /\ Is(NewIndexes[24])
          /\ Is(NewIndexes[25]) /\ Is(NewIndexes[26]) /\ Is(NewIndexes[27]) /\ Is(NewIndexes[28])
        BY <3>1, <3>2 DEF NewIndexes
    <3>4. \A i \in 1..28 : Is(NewIndexes[i])
        BY <3>3
    <3> QED
        BY <3>4 DEF Is
  <2>3. DOMAIN up = 1..28 /\ DOMAIN down = 1..28
      BY <2>1
  <2>4. Len(up) = 28 /\ Len(down) = 28
    <3>1. up = [i \in 1..28 |-> up[i]] /\ down = [i \in 1..28 |-> down[i]]
        BY <2>1
    <3> HIDE DEF up, down
    <3> QED
        BY <3>1, <2>3, ListOf28
  <2>5. AllGood(up) /\ AllGood(down)
      BY <2>1, <2>2, <2>4, StatementsGood DEF AllGood
  <2> HIDE DEF up, down
  <2>6. add_indexes_to_tables = Migration(up, down)
      BY DEF add_indexes_to_tables, up, down
  <2> QED
      BY <2>5, <2>6, MigrationsGood
<1>4. GoodMigration(update_blockchain_events)
    BY MigrationsGood, StatementsGood, ListsGood, ColumnsAsked DEF update_blockchain_events
<1>5. GoodMigration(update_blockchain_table)
    BY MigrationsGood, StatementsGood, ListsGood, ColumnsAsked DEF update_blockchain_table
<1> QED
    BY <1>1, <1>2, <1>3, <1>4, <1>5

LEMMA EveryMigrationGood ==
    AllMigrations = 60 /\ \A m \in 1..AllMigrations : GoodMigration(DatabaseMigrations[m])
<1>1. AllMigrations = 60
    BY DEF AllMigrations, DatabaseMigrations
<1>2. ASSUME NEW m \in 1..60 PROVE GoodMigration(DatabaseMigrations[m])
    BY MostMigrationsGood, OtherMigrationsGood DEF DatabaseMigrations
<1> QED
    BY <1>1, <1>2

(* A statement that is run or reverted.                                     *)
LEMMA StatementGood ==
    ASSUME NEW m \in 1..AllMigrations, NEW way \in {"up", "down"}, NEW k \in Nat \ {0},
           k <= Len(StatementsOf(m, way))
    PROVE  GoodStatement(StatementsOf(m, way)[k])
<1>1. GoodMigration(DatabaseMigrations[m])
    BY EveryMigrationGood
<1>2. AllGood(StatementsOf(m, way))
    BY <1>1 DEF GoodMigration, StatementsOf
<1> HIDE DEF StatementsOf
<1>3. Len(StatementsOf(m, way)) \in Int => k \in 1..Len(StatementsOf(m, way))
    OBVIOUS
<1> QED
    BY <1>2, <1>3 DEF AllGood

(* The tables fit together: a column, a reference and an index are of a     *)
(* table and columns that are there.                                        *)
Fits(tables, columns, refers, indexes) ==
    /\ \A c \in columns : c = <<c[1], c[2], c[3]>> /\ c[1] \in tables /\ c[3] \subseteq {"value", "text"}
    /\ \A r \in refers : r = <<r[1], r[2]>> /\ r[1] \in tables /\ r[2] \in tables
    /\ \A i \in indexes :
          /\ i = [table |-> i.table, index |-> i.index, on |-> i.on] /\ i.on # {}
          /\ \A x \in i.on : \E c \in columns : c[1] = i.table /\ c[2] = x

Intact(db) ==
    /\ db = [tables |-> db.tables, columns |-> db.columns, refers |-> db.refers, indexes |-> db.indexes]
    /\ Fits(db.tables, db.columns, db.refers, db.indexes)

LEMMA ColumnsOfIs ==
    \A db, t : \A x : x \in ColumnsOf(db, t) <=> \E c \in db.columns : c[1] = t /\ c[2] = x
BY DEF ColumnsOf

LEMMA NamesIs == \A columns : \A x : x \in Names(columns) <=> \E c \in columns : c[1] = x
BY DEF Names

LEMMA ColumnsInAre ==
    ASSUME NEW t, NEW columns, GoodColumns(columns)
    PROVE  /\ \A c \in ColumnsIn(t, columns) :
                  c = <<c[1], c[2], c[3]>> /\ c[1] = t /\ c[3] \subseteq {"value", "text"}
           /\ \A n \in Names(columns) : \E c \in ColumnsIn(t, columns) : c[1] = t /\ c[2] = n
<1>1. ASSUME NEW c \in ColumnsIn(t, columns)
      PROVE  c = <<c[1], c[2], c[3]>> /\ c[1] = t /\ c[3] \subseteq {"value", "text"}
    BY <1>1 DEF ColumnsIn, GoodColumns
<1>2. ASSUME NEW n \in Names(columns) PROVE \E c \in ColumnsIn(t, columns) : c[1] = t /\ c[2] = n
  <2>1. PICK d \in columns : d[1] = n
      BY NamesIs
  <2>2. <<t, d[1], d[2]>> \in ColumnsIn(t, columns)
      BY DEF ColumnsIn
  <2> QED
      BY <2>1, <2>2
<1> QED
    BY <1>1, <1>2

LEMMA AppliedIntact ==
    ASSUME NEW db, Intact(db), NEW s, Plain(s), Accepts(db, s)
    PROVE  Intact(Applied(db, s))
<1> DEFINE T == db.tables
           C == db.columns
           R == db.refers
           I == db.indexes
           t == s.table
<1>1. /\ db = [tables |-> T, columns |-> C, refers |-> R, indexes |-> I]
      /\ Fits(T, C, R, I)
    BY DEF Intact
<1>2. \A x, y : x \in ColumnsOf(db, y) <=> \E c \in C : c[1] = y /\ c[2] = x
    BY ColumnsOfIs
<1> HIDE DEF T, C, R, I
<1>3. \A a, b, c, d : Fits(a, b, c, d) =>
          Intact([tables |-> a, columns |-> b, refers |-> c, indexes |-> d])
    BY DEF Intact
<1>4. CASE s.does = "create"
  <2>1. CASE t \in T
      BY <2>1, <1>4 DEF Applied, T
  <2>2. CASE t \notin T
    <3> DEFINE a == T \cup {t}
               b == C \cup ColumnsIn(t, s.columns)
               c == R \cup {<<t, x>> : x \in s.refers}
    <3>1. Applied(db, s) = [tables |-> a, columns |-> b, refers |-> c, indexes |-> I]
        BY <2>2, <1>1, <1>4 DEF Applied, T, C, R, I
    <3>2. \A x \in ColumnsIn(t, s.columns) : x = <<x[1], x[2], x[3]>> /\ x[1] = t /\ x[3] \subseteq {"value", "text"}
        BY <1>4, ColumnsInAre DEF Plain
    <3>3. s.refers \subseteq T
        BY <1>4 DEF Accepts, T
    <3>4. Fits(a, b, c, I)
        BY <3>2, <3>3, <1>1 DEF Fits
    <3> QED
        BY <3>1, <3>4, <1>3
  <2> QED
      BY <2>1, <2>2
<1>5. CASE s.does = "drop"
  <2> DEFINE a == T \ {t}
             b == Elsewhere(C, t)
             c == Elsewhere(R, t)
             d == {i \in I : i.table # t}
  <2>1. Applied(db, s) = [tables |-> a, columns |-> b, refers |-> c, indexes |-> d]
      BY <1>1, <1>5 DEF Applied, T, C, R, I
  <2>2. \A r \in R : r[2] # t
      BY <1>5 DEF Accepts, R
  <2>3. Fits(a, b, c, d)
      BY <2>2, <1>1 DEF Fits, Elsewhere
  <2> HIDE DEF a, b, c, d
  <2> QED
      BY <2>1, <2>3, <1>3
<1>6. CASE s.does = "renameTable"
  <2> DEFINE named(x) == IF x = t THEN s.to ELSE x
             a == {named(x) : x \in T}
             b == {<<named(x[1]), x[2], x[3]>> : x \in C}
             c == {<<named(x[1]), named(x[2])>> : x \in R}
             d == {[i EXCEPT !.table = named(@)] : i \in I}
  <2>1. Applied(db, s) = [tables |-> a, columns |-> b, refers |-> c, indexes |-> d]
      BY <1>1, <1>6 DEF Applied, T, C, R, I
  <2> HIDE DEF named
  <2>2. \A x \in b : x = <<x[1], x[2], x[3]>> /\ x[1] \in a /\ x[3] \subseteq {"value", "text"}
      BY <1>1 DEF Fits
  <2>3. \A x \in c : x = <<x[1], x[2]>> /\ x[1] \in a /\ x[2] \in a
      BY <1>1 DEF Fits
  <2>4. ASSUME NEW j \in d
        PROVE  /\ j = [table |-> j.table, index |-> j.index, on |-> j.on] /\ j.on # {}
               /\ \A x \in j.on : \E y \in b : y[1] = j.table /\ y[2] = x
    <3>1. PICK i \in I : j = [i EXCEPT !.table = named(@)]
        BY <2>4
    <3>2. /\ i = [table |-> i.table, index |-> i.index, on |-> i.on] /\ i.on # {}
          /\ \A x \in i.on : \E y \in C : y[1] = i.table /\ y[2] = x
        BY <1>1 DEF Fits
    <3>3. j = [table |-> named(i.table), index |-> i.index, on |-> i.on]
        BY <3>1, <3>2
    <3>4. ASSUME NEW x \in i.on PROVE \E y \in b : y[1] = named(i.table) /\ y[2] = x
      <4>1. PICK y \in C : y[1] = i.table /\ y[2] = x
          BY <3>2, <3>4
      <4>2. <<named(y[1]), y[2], y[3]>> \in b
          OBVIOUS
      <4> QED
          BY <4>1, <4>2
    <3> QED
        BY <3>2, <3>3, <3>4
  <2>5. Fits(a, b, c, d)
      BY <2>2, <2>3, <2>4 DEF Fits
  <2> HIDE DEF a, b, c, d
  <2> QED
      BY <2>1, <2>5, <1>3
<1>7. CASE s.does = "add"
  <2> DEFINE b == C \cup ColumnsIn(t, s.columns)
  <2>1. Applied(db, s) = [tables |-> T, columns |-> b, refers |-> R, indexes |-> I]
      BY <1>1, <1>7 DEF Applied, T, C, R, I
  <2>2. \A x \in ColumnsIn(t, s.columns) : x = <<x[1], x[2], x[3]>> /\ x[1] = t /\ x[3] \subseteq {"value", "text"}
      BY <1>7, ColumnsInAre DEF Plain
  <2>3. t \in T
      BY <1>7 DEF Accepts, T
  <2>4. Fits(T, b, R, I)
      BY <2>2, <2>3, <1>1 DEF Fits
  <2> QED
      BY <2>1, <2>4, <1>3
<1>8. CASE s.does = "change"
  <2> DEFINE b == {c \in C : c[1] = t => c[2] \notin Names(s.columns)} \cup ColumnsIn(t, s.columns)
  <2>1. Applied(db, s) = [tables |-> T, columns |-> b, refers |-> R, indexes |-> I]
      BY <1>1, <1>8 DEF Applied, T, C, R, I
  <2>2. /\ \A x \in ColumnsIn(t, s.columns) :
              x = <<x[1], x[2], x[3]>> /\ x[1] = t /\ x[3] \subseteq {"value", "text"}
        /\ \A n \in Names(s.columns) : \E c \in ColumnsIn(t, s.columns) : c[1] = t /\ c[2] = n
      BY <1>8, ColumnsInAre DEF Plain
  <2>3. ColumnsIn(t, s.columns) # {} => t \in T
    <3> SUFFICES ASSUME NEW x \in ColumnsIn(t, s.columns) PROVE t \in T
        OBVIOUS
    <3>1. PICK y \in s.columns : TRUE
        BY DEF ColumnsIn
    <3>2. y[1] \in ColumnsOf(db, t)
        BY <3>1, <1>8, NamesIs DEF Accepts
    <3> QED
        BY <3>2, <1>1, <1>2 DEF Fits
  <2>4. \A i \in I : \A x \in i.on : \E c \in b : c[1] = i.table /\ c[2] = x
    <3> SUFFICES ASSUME NEW i \in I, NEW x \in i.on PROVE \E c \in b : c[1] = i.table /\ c[2] = x
        OBVIOUS
    <3>1. PICK c \in C : c[1] = i.table /\ c[2] = x
        BY <1>1 DEF Fits
    <3>2. CASE c \in b
        BY <3>1, <3>2
    <3>3. CASE c \notin b
        BY <3>1, <3>3, <2>2
    <3> QED
        BY <3>2, <3>3
  <2>5. Fits(T, b, R, I)
      BY <2>2, <2>3, <2>4, <1>1 DEF Fits
  <2> QED
      BY <2>1, <2>5, <1>3
<1>9. CASE s.does = "remove"
  <2> DEFINE b == {c \in C : c[1] = t => c[2] # s.column}
             d == IndexesWithout(I, t, s.column)
  <2>1. Applied(db, s) = [tables |-> T, columns |-> b, refers |-> R, indexes |-> d]
      BY <1>1, <1>9 DEF Applied, T, C, R, I
  <2>2. ASSUME NEW j \in d
        PROVE  /\ j = [table |-> j.table, index |-> j.index, on |-> j.on] /\ j.on # {}
               /\ \A x \in j.on : \E y \in b : y[1] = j.table /\ y[2] = x
    <3>1. PICK i \in I : /\ i.table = t => i.on # {s.column}
                         /\ j = IF i.table = t THEN [i EXCEPT !.on = @ \ {s.column}] ELSE i
        BY <2>2 DEF IndexesWithout
    <3>2. /\ i = [table |-> i.table, index |-> i.index, on |-> i.on] /\ i.on # {}
          /\ \A x \in i.on : \E y \in C : y[1] = i.table /\ y[2] = x
        BY <1>1 DEF Fits
    <3>3. CASE i.table = t
      <4>1. j = [table |-> i.table, index |-> i.index, on |-> i.on \ {s.column}]
          BY <3>1, <3>2, <3>3
      <4>2. i.on \ {s.column} # {}
          BY <3>1, <3>2, <3>3
      <4>3. \A x \in i.on \ {s.column} : \E y \in b : y[1] = i.table /\ y[2] = x
          BY <3>2
      <4> QED
          BY <4>1, <4>2, <4>3
    <3>4. CASE i.table # t
      <4>1. j = i
          BY <3>1, <3>4
      <4>2. \A x \in i.on : \E y \in b : y[1] = i.table /\ y[2] = x
          BY <3>2, <3>4
      <4> QED
          BY <4>1, <4>2, <3>2
    <3> QED
        BY <3>3, <3>4
  <2>3. Fits(T, b, R, d)
      BY <2>2, <1>1 DEF Fits
  <2> HIDE DEF b, d
  <2> QED
      BY <2>1, <2>3, <1>3
<1>10. CASE s.does = "rename"
  <2> DEFINE named(x, c) == IF x = t /\ c = s.column THEN s.to ELSE c
             b == {<<c[1], named(c[1], c[2]), c[3]>> : c \in C}
             d == {[i EXCEPT !.on = {named(i.table, c) : c \in @}] : i \in I}
  <2>1. Applied(db, s) = [tables |-> T, columns |-> b, refers |-> R, indexes |-> d]
      BY <1>1, <1>10 DEF Applied, T, C, R, I
  <2> HIDE DEF named
  <2>2. \A x \in b : x = <<x[1], x[2], x[3]>> /\ x[1] \in T /\ x[3] \subseteq {"value", "text"}
      BY <1>1 DEF Fits
  <2>3. ASSUME NEW j \in d
        PROVE  /\ j = [table |-> j.table, index |-> j.index, on |-> j.on] /\ j.on # {}
               /\ \A x \in j.on : \E y \in b : y[1] = j.table /\ y[2] = x
    <3>1. PICK i \in I : j = [i EXCEPT !.on = {named(i.table, c) : c \in @}]
        BY <2>3
    <3>2. /\ i = [table |-> i.table, index |-> i.index, on |-> i.on] /\ i.on # {}
          /\ \A x \in i.on : \E y \in C : y[1] = i.table /\ y[2] = x
        BY <1>1 DEF Fits
    <3>3. j = [table |-> i.table, index |-> i.index, on |-> {named(i.table, c) : c \in i.on}]
        BY <3>1, <3>2
    <3>4. ASSUME NEW x \in i.on PROVE \E y \in b : y[1] = i.table /\ y[2] = named(i.table, x)
      <4>1. PICK y \in C : y[1] = i.table /\ y[2] = x
          BY <3>2, <3>4
      <4>2. <<y[1], named(y[1], y[2]), y[3]>> \in b
          OBVIOUS
      <4> QED
          BY <4>1, <4>2
    <3>5. {named(i.table, c) : c \in i.on} # {}
        BY <3>2
    <3> QED
        BY <3>3, <3>4, <3>5
  <2>4. Fits(T, b, R, d)
      BY <2>2, <2>3, <1>1 DEF Fits
  <2> HIDE DEF b, d
  <2> QED
      BY <2>1, <2>4, <1>3
<1>11. CASE s.does = "addIndex"
  <2> DEFINE d == I \cup {[table |-> s.table, index |-> s.index, on |-> s.on]}
  <2>1. Applied(db, s) = [tables |-> T, columns |-> C, refers |-> R, indexes |-> d]
      BY <1>1, <1>11 DEF Applied, T, C, R, I
  <2>2. s.on # {} /\ \A x \in s.on : \E c \in C : c[1] = t /\ c[2] = x
      BY <1>2, <1>11 DEF Accepts, Plain
  <2>3. Fits(T, C, R, d)
      BY <2>2, <1>1 DEF Fits
  <2> QED
      BY <2>1, <2>3, <1>3
<1>12. CASE s.does = "removeIndex"
  <2> DEFINE d == {i \in I : i.table = t => i.index # s.index}
  <2>1. Applied(db, s) = [tables |-> T, columns |-> C, refers |-> R, indexes |-> d]
      BY <1>1, <1>12 DEF Applied, T, C, R, I
  <2>2. Fits(T, C, R, d)
    <3>1. d \subseteq I /\ Fits(T, C, R, I)
        BY <1>1
    <3> HIDE DEF T, C, R, I, d
    <3> QED
        BY ONLY <3>1 DEF Fits
  <2> HIDE DEF d
  <2> QED
      BY <2>1, <2>2, <1>3
<1>13. CASE s.does = "query"
    BY <1>13 DEF Applied
<1> QED
    BY <1>4, <1>5, <1>6, <1>7, <1>8, <1>9, <1>10, <1>11, <1>12, <1>13 DEF Plain

(* The inductive invariant of the database: its tables fit together, and    *)
(* what is run or reverted is a migration there is.                         *)
DatabaseIInv ==
    /\ release \in Releases /\ ran \in 0..release /\ upgrade \in {"off", "up", "down", "done"}
    /\ next \in Nat \ {0} /\ databaseFaults \in 0..MaxDatabaseFaults
    /\ upgrade = "up" => ran < release
    /\ upgrade = "down" => ran >= 1
    /\ Intact(database)

LEMMA DatabaseStarts == DatabaseInit => DatabaseIInv
<1> SUFFICES ASSUME DatabaseInit PROVE DatabaseIInv
    OBVIOUS
<1>1. Intact(database)
    BY DEF DatabaseInit, NoTables, Intact, Fits
<1>2. release \in Nat
    BY DatabaseAssumption, EveryMigrationGood DEF DatabaseInit
<1> QED
    BY <1>1, <1>2, DatabaseAssumption DEF DatabaseInit, DatabaseIInv

LEMMA StatementKeeps ==
    ASSUME DatabaseIInv, RunStatement
    PROVE  Intact(database')
<1> DEFINE s == NextStatement
           what == IF s.does = "ifNeeded" THEN s.what ELSE s
<1>1. release \in 1..AllMigrations /\ AllMigrations = 60
    BY DatabaseAssumption, EveryMigrationGood DEF DatabaseIInv
<1>2. CurrentMigration \in 1..AllMigrations
    BY <1>1 DEF DatabaseIInv, RunStatement, CurrentMigration
<1>3. Plain(what)
  <2>1. upgrade \in {"up", "down"} /\ next \in Nat \ {0}
        /\ next <= Len(StatementsOf(CurrentMigration, upgrade))
      BY DEF DatabaseIInv, RunStatement, StatementLeft
  <2>2. GoodStatement(s)
      BY <1>2, <2>1, StatementGood DEF NextStatement
  <2> QED
      BY <2>2 DEF GoodStatement
<1>4. Takes(database, s) /\ database' = AfterStatement(database, s) /\ Intact(database)
    BY DEF RunStatement, DatabaseIInv
<1> HIDE DEF s
<1>5. CASE Accepts(database, what)
  <2>1. Intact(Applied(database, what))
      BY <1>3, <1>4, <1>5, AppliedIntact
  <2> QED
      BY <2>1, <1>4 DEF AfterStatement
<1>6. CASE ~Accepts(database, what)
  <2>1. s.does = "ifNeeded" /\ ~Needed(database, s.what)
      BY <1>4, <1>6 DEF Takes
  <2> QED
      BY <2>1, <1>4 DEF AfterStatement
<1> QED
    BY <1>5, <1>6

LEMMA DatabaseStep == DatabaseIInv /\ [DatabaseNext]_databaseVars => DatabaseIInv'
<1> SUFFICES ASSUME DatabaseIInv, [DatabaseNext]_databaseVars PROVE DatabaseIInv'
    OBVIOUS
<1>1. /\ release \in Nat \ {0} /\ ran \in Nat /\ ran <= release /\ next \in Nat \ {0}
      /\ databaseFaults \in Nat /\ MaxDatabaseFaults \in Nat /\ Releases \subseteq Nat \ {0}
    BY DatabaseAssumption, EveryMigrationGood DEF DatabaseIInv
<1>2. DatabaseFault => databaseFaults' \in 0..MaxDatabaseFaults
    BY <1>1 DEF DatabaseFault
<1> USE DEF DatabaseIInv
<1>3. CASE NewRelease
    BY <1>1, <1>3 DEF NewRelease
<1>4. CASE UpgradeStarts
    BY <1>1, <1>4 DEF UpgradeStarts
<1>5. CASE RunStatement
  <2>1. Intact(database')
      BY <1>5, StatementKeeps
  <2> QED
      BY <2>1, <1>1, <1>5 DEF RunStatement
<1>6. CASE RecordMigration
    BY <1>1, <1>6 DEF RecordMigration
<1>7. CASE UpgradeFails
    BY <1>1, <1>2, <1>7 DEF UpgradeFails
<1>8. CASE Reverted
    BY <1>1, <1>8 DEF Reverted
<1>9. CASE RevertFails
    BY <1>1, <1>2, <1>9 DEF RevertFails
<1>10. CASE UpgradeDies
    BY <1>1, <1>2, <1>10 DEF UpgradeDies
<1>11. CASE UNCHANGED databaseVars
    BY <1>11 DEF databaseVars
<1> QED
    BY <1>3, <1>4, <1>5, <1>6, <1>7, <1>8, <1>9, <1>10, <1>11 DEF DatabaseNext

LEMMA DatabaseTypes == DatabaseIInv => DatabaseTypeOK
<1> SUFFICES ASSUME DatabaseIInv PROVE DatabaseTypeOK
    OBVIOUS
<1>1. Fits(database.tables, database.columns, database.refers, database.indexes)
    BY DEF DatabaseIInv, Intact
<1>2. \A i \in database.indexes : i.on # {} /\ i.on \subseteq ColumnsOf(database, i.table)
    BY <1>1, ColumnsOfIs DEF Fits
<1> QED
    BY <1>1, <1>2 DEF Fits, DatabaseIInv, DatabaseTypeOK

(* Whichever releases are installed and whichever statements fail: a        *)
(* column, a reference and an index are always of a table and of columns    *)
(* that are there, and what is run is a migration the release has.          *)
THEOREM DatabaseTypeCorrect == DatabaseSpec => []DatabaseTypeOK
BY DatabaseStarts, DatabaseStep, DatabaseTypes, PTL DEF DatabaseSpec

-----------------------------------------------------------------------------
(* Statement n of migration k is at 100 * k + n. *)
Never == 100000

(* From where on a table is there for good. *)
MadeAt(t) ==
    CASE t = "commands" -> 101 [] t = "operation_ids" -> 201 [] t = "publish" -> 301
      [] t = "publish_response" -> 401 [] t = "get" -> 501 [] t = "get_response" -> 601
      [] t = "event" -> 701 [] t = "ability" -> 801 [] t = "role" -> 901 [] t = "user" -> 1001
      [] t = "token" -> 1101 [] t = "role_ability" -> 1201 [] t = "blockchain_event" -> 1401
      [] t = "shard" -> 1501 [] t = "blockchain" -> 1601 [] t = "update" -> 2201
      [] t = "update_response" -> 2401 [] t = "service_agreement" -> 2601
      [] t = "paranet" -> 3501 [] t = "missed_paranet_asset" -> 3601
      [] t = "publish_paranet" -> 3701 [] t = "paranet_synced_asset" -> 3801
      [] t = "publish_paranet_response" -> 3901 [] t = "ask" -> 5501
      [] t = "ask_response" -> 5502 [] t = "finality_response" -> 5601
      [] t = "finality_status" -> 5701 [] t = "finality" -> 5801 [] OTHER -> Never

(* A column that comes later than its table, for good. *)
AddedAt(t, c) ==
    CASE t = "event" /\ c = "blockchain_id" -> 2801
      [] t = "missed_paranet_asset" /\ c = "error_message" -> 4101
      [] t = "paranet_synced_asset" /\ c = "data_source" -> 4401
      [] t = "commands" /\ c = "priority" -> 4801
      [] t = "commands" /\ c = "is_blocking" -> 4901
      [] t = "blockchain_event" /\ c = "blockchain" -> 5101
      [] t = "blockchain_event" /\ c = "block_number" -> 5103
      [] t = "blockchain_event" /\ c = "transaction_index" -> 5104
      [] t = "blockchain_event" /\ c = "log_index" -> 5105
      [] t = "blockchain_event" /\ c = "contract_address" -> 5106
      [] t = "blockchain" /\ c = "blockchain" -> 5203
      [] t = "operation_ids" /\ c = "min_acks_reached" -> 5901
      [] OTHER -> Never

(* And one that goes for good. *)
GoneAt(t, c) ==
    CASE t = "publish_response" /\ c = "keyword" -> 4701
      [] t = "get_response" /\ c = "keyword" -> 4702
      [] t = "publish_response" /\ c = "dataset_root" -> 5001
      [] t = "get_response" /\ c = "dataset_root" -> 5002
      [] t = "blockchain_event" /\ c = "blockchain_id" -> 5101
      [] t = "blockchain_event" /\ c = "block" -> 5103
      [] t = "blockchain" /\ c = "blockchain_id" -> 5202
      [] t = "blockchain" /\ c = "contract" -> 5205
      [] t = "missed_paranet_asset" /\ c = "knowledge_asset_id" -> 4201
      [] OTHER -> Never

(* The columns a table has from the beginning and keeps. *)
BaseOf(t) ==
    CASE t \in {"publish", "get", "update", "publish_paranet", "ask", "finality"} ->
            {"id", "operation_id", "status", "created_at", "updated_at"}
      [] t \in {"publish_response", "get_response", "update_response", "publish_paranet_response",
                "ask_response", "finality_response"} ->
            {"id", "operation_id", "status", "message", "created_at", "updated_at"}
      [] t = "finality_status" -> {"id", "operation_id", "ual", "peer_id", "created_at", "updated_at"}
      [] t = "blockchain_event" ->
            {"id", "contract", "event", "data", "processed", "created_at", "updated_at"}
      [] t = "blockchain" -> {"last_checked_block", "last_checked_timestamp"}
      [] t = "commands" ->
            {"id", "name", "data", "sequence", "ready_at", "delay", "started_at", "deadline_at",
             "period", "status", "message", "parent_id", "transactional", "retries",
             "created_at", "updated_at"}
      [] t = "event" ->
            {"id", "operation_id", "name", "timestamp", "value1", "value2", "value3",
             "created_at", "updated_at"}
      [] t = "missed_paranet_asset" ->
            {"id", "blockchain_id", "ual", "paranet_ual", "created_at", "updated_at"}
      [] t = "operation_ids" ->
            {"operation_id", "data", "status", "timestamp", "created_at", "updated_at"}
      [] t = "paranet_synced_asset" ->
            {"id", "blockchain_id", "ual", "paranet_ual", "public_assertion_id",
             "private_assertion_id", "sender", "transaction_hash", "created_at", "updated_at"}
      [] t = "paranet" ->
            {"id", "name", "description", "paranet_id", "ka_count", "blockchain_id",
             "created_at", "updated_at"}
      [] t = "shard" ->
            {"peer_id", "blockchain_id", "ask", "stake", "last_seen", "last_dialed", "sha256"}
      [] t = "token" ->
            {"id", "revoked", "user_id", "name", "expires_at", "created_at", "updated_at"}
      [] t = "user" -> {"id", "name", "role_id", "created_at", "updated_at"}
      [] t \in {"role", "ability"} -> {"id", "name"}
      [] t = "role_ability" -> {"role_id", "ability_id"}
      [] t = "service_agreement" -> {"blockchain_id"}
      [] OTHER -> {}

(* Where a name of an index is in NewIndexes. *)
Place(x) ==
    CASE x = "shard_blockchain_id_index" -> 1 [] x = "last_dialed_index" -> 2
      [] x = "paranet_synced_asset_ual_index" -> 3 [] x = "paranet_ual_data_source_index" -> 4
      [] x = "blockchain_id_paranet_id_index" -> 5 [] x = "paranet_ual_index" -> 6
      [] x = "missed_paranet_asset_ual_index" -> 7 [] x = "name_timestamp_index" -> 8
      [] x = "event_operation_id_index" -> 9 [] x = "name_status_index" -> 10
      [] x = "status_started_at_index" -> 11 [] x = "get_operation_id_index" -> 12
      [] x = "publish_operation_id_index" -> 13 [] x = "update_operation_id_index" -> 14
      [] x = "publish_paranet_operation_id_index" -> 15 [] x = "get_created_at_index" -> 16
      [] x = "publish_created_at_index" -> 17 [] x = "update_created_at_index" -> 18
      [] x = "publish_paranet_created_at_index" -> 19
      [] x = "get_response_operation_id_index" -> 20 [] x = "operation_id_index" -> 21
      [] x = "update_response_operation_id_index" -> 22
      [] x = "publish_paranet_response_operation_id_index" -> 23
      [] x = "get_response_created_at_index" -> 24
      [] x = "publish_response_created_at_index" -> 25
      [] x = "update_response_created_at_index" -> 26
      [] x = "publish_paranet_response_created_at_index" -> 27 [] x = "contract_index" -> 28
      [] OTHER -> 0

HasColumn(db, t, c) == \E x \in db.columns : x[1] = t /\ x[2] = c
IndexFact(i) == [table |-> NewIndexes[i].table, index |-> NewIndexes[i].index, on |-> NewIndexes[i].on]

WrittenTables == {"publish", "publish_response", "get", "get_response", "update", "publish_paranet",
            "ask", "ask_response", "finality", "finality_response", "finality_status",
            "blockchain_event", "blockchain", "commands", "event", "missed_paranet_asset",
            "operation_ids", "paranet_synced_asset", "paranet", "shard", "token", "user"}
MayAsk(t, c) ==
    t \in WrittenTables => (c \in BaseOf(t) /\ c # "role_id") \/ AddedAt(t, c) < Never \/ GoneAt(t, c) < Never

-----------------------------------------------------------------------------

LEMMA MadeAtIs ==
    /\ MadeAt("commands") = 101 /\ MadeAt("operation_ids") = 201 /\ MadeAt("publish") = 301
    /\ MadeAt("publish_response") = 401 /\ MadeAt("get") = 501 /\ MadeAt("get_response") = 601
    /\ MadeAt("event") = 701 /\ MadeAt("ability") = 801 /\ MadeAt("role") = 901
    /\ MadeAt("user") = 1001 /\ MadeAt("token") = 1101 /\ MadeAt("role_ability") = 1201
    /\ MadeAt("blockchain_event") = 1401 /\ MadeAt("shard") = 1501 /\ MadeAt("blockchain") = 1601
    /\ MadeAt("update") = 2201 /\ MadeAt("update_response") = 2401 /\ MadeAt("service_agreement") = 2601
    /\ MadeAt("paranet") = 3501 /\ MadeAt("missed_paranet_asset") = 3601 /\ MadeAt("publish_paranet") = 3701
    /\ MadeAt("paranet_synced_asset") = 3801 /\ MadeAt("publish_paranet_response") = 3901 /\ MadeAt("ask") = 5501
    /\ MadeAt("ask_response") = 5502 /\ MadeAt("finality_response") = 5601 /\ MadeAt("finality_status") = 5701
    /\ MadeAt("finality") = 5801
    /\ \A t : t \notin {"commands", "operation_ids", "publish", "publish_response", "get", "get_response", "event",
     "ability", "role", "user", "token", "role_ability", "blockchain_event", "shard",
     "blockchain", "update", "update_response", "service_agreement", "paranet",
     "missed_paranet_asset", "publish_paranet", "paranet_synced_asset",
     "publish_paranet_response", "ask", "ask_response", "finality_response", "finality_status",
     "finality"} => MadeAt(t) = Never
BY DEF MadeAt, Never

LEMMA AddedAtIs ==
    \A t, c, v : v = AddedAt(t, c) =>
       \/ t = "event" /\ c = "blockchain_id" /\ v = 2801
       \/ t = "missed_paranet_asset" /\ c = "error_message" /\ v = 4101
       \/ t = "paranet_synced_asset" /\ c = "data_source" /\ v = 4401
       \/ t = "commands" /\ c = "priority" /\ v = 4801
       \/ t = "commands" /\ c = "is_blocking" /\ v = 4901
       \/ t = "blockchain_event" /\ c = "blockchain" /\ v = 5101
       \/ t = "blockchain_event" /\ c = "block_number" /\ v = 5103
       \/ t = "blockchain_event" /\ c = "transaction_index" /\ v = 5104
       \/ t = "blockchain_event" /\ c = "log_index" /\ v = 5105
       \/ t = "blockchain_event" /\ c = "contract_address" /\ v = 5106
       \/ t = "blockchain" /\ c = "blockchain" /\ v = 5203
       \/ t = "operation_ids" /\ c = "min_acks_reached" /\ v = 5901
       \/ v = Never
BY DEF AddedAt, Never

LEMMA GoneAtIs ==
    \A t, c, v : v = GoneAt(t, c) =>
       \/ t = "publish_response" /\ c = "keyword" /\ v = 4701
       \/ t = "get_response" /\ c = "keyword" /\ v = 4702
       \/ t = "publish_response" /\ c = "dataset_root" /\ v = 5001
       \/ t = "get_response" /\ c = "dataset_root" /\ v = 5002
       \/ t = "blockchain_event" /\ c = "blockchain_id" /\ v = 5101
       \/ t = "blockchain_event" /\ c = "block" /\ v = 5103
       \/ t = "blockchain" /\ c = "blockchain_id" /\ v = 5202
       \/ t = "blockchain" /\ c = "contract" /\ v = 5205
       \/ t = "missed_paranet_asset" /\ c = "knowledge_asset_id" /\ v = 4201
       \/ v = Never
BY DEF GoneAt, Never

LEMMA MadeAtRange == \A t : MadeAt(t) \in Nat /\ 1 <= MadeAt(t) /\ MadeAt(t) <= Never
BY MadeAtIs DEF Never

LEMMA PositionsAre ==
    /\ Never \in Nat
    /\ \A t : MadeAt(t) \in Nat /\ 1 <= MadeAt(t) /\ MadeAt(t) <= Never
    /\ \A t, c : AddedAt(t, c) \in Nat /\ MadeAt(t) <= AddedAt(t, c) /\ AddedAt(t, c) <= Never
    /\ \A t, c : GoneAt(t, c) \in Nat /\ 1 <= GoneAt(t, c) /\ GoneAt(t, c) <= Never
<1>1. \A t, c, v : v = GoneAt(t, c) => v \in Nat /\ 1 <= v /\ v <= Never
    BY GoneAtIs DEF Never
<1>2. \A t, c, v : v = AddedAt(t, c) => v \in Nat /\ MadeAt(t) <= v /\ v <= Never
    BY MadeAtRange, AddedAtIs, MadeAtIs DEF Never
<1> QED
    BY <1>1, <1>2, MadeAtRange DEF Never

LEMMA BaseOfIs ==
    /\ BaseOf("publish") =
          {"id", "operation_id", "status", "created_at", "updated_at"}
    /\ BaseOf("get") =
          {"id", "operation_id", "status", "created_at", "updated_at"}
    /\ BaseOf("update") =
          {"id", "operation_id", "status", "created_at", "updated_at"}
    /\ BaseOf("publish_paranet") =
          {"id", "operation_id", "status", "created_at", "updated_at"}
    /\ BaseOf("ask") =
          {"id", "operation_id", "status", "created_at", "updated_at"}
    /\ BaseOf("finality") =
          {"id", "operation_id", "status", "created_at", "updated_at"}
    /\ BaseOf("publish_response") =
          {"id", "operation_id", "status", "message", "created_at", "updated_at"}
    /\ BaseOf("get_response") =
          {"id", "operation_id", "status", "message", "created_at", "updated_at"}
    /\ BaseOf("update_response") =
          {"id", "operation_id", "status", "message", "created_at", "updated_at"}
    /\ BaseOf("publish_paranet_response") =
          {"id", "operation_id", "status", "message", "created_at", "updated_at"}
    /\ BaseOf("ask_response") =
          {"id", "operation_id", "status", "message", "created_at", "updated_at"}
    /\ BaseOf("finality_response") =
          {"id", "operation_id", "status", "message", "created_at", "updated_at"}
    /\ BaseOf("finality_status") =
          {"id", "operation_id", "ual", "peer_id", "created_at", "updated_at"}
    /\ BaseOf("blockchain_event") =
          {"id", "contract", "event", "data", "processed", "created_at", "updated_at"}
    /\ BaseOf("blockchain") = {"last_checked_block", "last_checked_timestamp"}
    /\ BaseOf("commands") =
          {"id", "name", "data", "sequence", "ready_at", "delay", "started_at", "deadline_at",
           "period", "status", "message", "parent_id", "transactional", "retries", "created_at",
           "updated_at"}
    /\ BaseOf("event") =
          {"id", "operation_id", "name", "timestamp", "value1", "value2", "value3", "created_at",
           "updated_at"}
    /\ BaseOf("missed_paranet_asset") =
          {"id", "blockchain_id", "ual", "paranet_ual", "created_at", "updated_at"}
    /\ BaseOf("operation_ids") =
          {"operation_id", "data", "status", "timestamp", "created_at", "updated_at"}
    /\ BaseOf("paranet_synced_asset") =
          {"id", "blockchain_id", "ual", "paranet_ual", "public_assertion_id",
           "private_assertion_id", "sender", "transaction_hash", "created_at", "updated_at"}
    /\ BaseOf("paranet") =
          {"id", "name", "description", "paranet_id", "ka_count", "blockchain_id", "created_at",
           "updated_at"}
    /\ BaseOf("shard") =
          {"peer_id", "blockchain_id", "ask", "stake", "last_seen", "last_dialed", "sha256"}
    /\ BaseOf("token") =
          {"id", "revoked", "user_id", "name", "expires_at", "created_at", "updated_at"}
    /\ BaseOf("user") =
          {"id", "name", "role_id", "created_at", "updated_at"}
    /\ BaseOf("role") = {"id", "name"}
    /\ BaseOf("ability") = {"id", "name"}
    /\ BaseOf("role_ability") = {"role_id", "ability_id"}
    /\ BaseOf("service_agreement") = {"blockchain_id"}
BY DEF BaseOf

LEMMA NewIndexesIs ==
    /\ Len(NewIndexes) = 28 /\ DOMAIN NewIndexes = 1..28
    /\ NewIndexes[1] = AddIndex("shard", {"blockchain_id"},
                                "shard_blockchain_id_index")
    /\ NewIndexes[2] = AddIndex("shard", {"last_dialed"},
                                "last_dialed_index")
    /\ NewIndexes[3] = AddIndex("paranet_synced_asset", {"ual"},
                                "paranet_synced_asset_ual_index")
    /\ NewIndexes[4] = AddIndex("paranet_synced_asset", {"paranet_ual", "data_source"},
                                "paranet_ual_data_source_index")
    /\ NewIndexes[5] = AddIndex("paranet", {"blockchain_id", "paranet_id"},
                                "blockchain_id_paranet_id_index")
    /\ NewIndexes[6] = AddIndex("missed_paranet_asset", {"paranet_ual"},
                                "paranet_ual_index")
    /\ NewIndexes[7] = AddIndex("missed_paranet_asset", {"ual"},
                                "missed_paranet_asset_ual_index")
    /\ NewIndexes[8] = AddIndex("event", {"name", "timestamp"},
                                "name_timestamp_index")
    /\ NewIndexes[9] = AddIndex("event", {"operation_id"},
                                "event_operation_id_index")
    /\ NewIndexes[10] = AddIndex("commands", {"name", "status"},
                                "name_status_index")
    /\ NewIndexes[11] = AddIndex("commands", {"status", "started_at"},
                                "status_started_at_index")
    /\ NewIndexes[12] = AddIndex("get", {"operation_id"},
                                "get_operation_id_index")
    /\ NewIndexes[13] = AddIndex("publish", {"operation_id"},
                                "publish_operation_id_index")
    /\ NewIndexes[14] = AddIndex("update", {"operation_id"},
                                "update_operation_id_index")
    /\ NewIndexes[15] = AddIndex("publish_paranet", {"operation_id"},
                                "publish_paranet_operation_id_index")
    /\ NewIndexes[16] = AddIndex("get", {"created_at"},
                                "get_created_at_index")
    /\ NewIndexes[17] = AddIndex("publish", {"created_at"},
                                "publish_created_at_index")
    /\ NewIndexes[18] = AddIndex("update", {"created_at"},
                                "update_created_at_index")
    /\ NewIndexes[19] = AddIndex("publish_paranet", {"created_at"},
                                "publish_paranet_created_at_index")
    /\ NewIndexes[20] = AddIndex("get_response", {"operation_id"},
                                "get_response_operation_id_index")
    /\ NewIndexes[21] = AddIndex("publish_response", {"operation_id"},
                                "operation_id_index")
    /\ NewIndexes[22] = AddIndex("update_response", {"operation_id"},
                                "update_response_operation_id_index")
    /\ NewIndexes[23] = AddIndex("publish_paranet_response", {"operation_id"},
                                "publish_paranet_response_operation_id_index")
    /\ NewIndexes[24] = AddIndex("get_response", {"created_at"},
                                "get_response_created_at_index")
    /\ NewIndexes[25] = AddIndex("publish_response", {"created_at"},
                                "publish_response_created_at_index")
    /\ NewIndexes[26] = AddIndex("update_response", {"created_at"},
                                "update_response_created_at_index")
    /\ NewIndexes[27] = AddIndex("publish_paranet_response", {"created_at"},
                                "publish_paranet_response_created_at_index")
    /\ NewIndexes[28] = AddIndex("blockchain", {"contract"},
                                "contract_index")
BY DEF NewIndexes, AddIndex

-----------------------------------------------------------------------------
(* What a statement makes of a database that takes it.                      *)

Inner(s) == IF s.does = "ifNeeded" THEN s.what ELSE s
Unmakes(s, t) == s.does \in {"drop", "renameTable"} /\ s.table = t
MakesTable(s, t) ==
    \/ s.does = "create" /\ s.table = t
    \/ s.does = "renameTable" /\ s.to = t
Leaves(s, t, c) == s.does \in {"remove", "rename"} /\ s.table = t /\ s.column = c
Unindexes(s, j) == s.does = "removeIndex" /\ s.table = j.table /\ s.index = j.index

TablesStay(old, new, s) ==
    /\ \A t \in old.tables : ~Unmakes(s, t) => t \in new.tables
    /\ \A t : MakesTable(s, t) => t \in new.tables
TablesCome(old, new, s) ==
    /\ \A t \in new.tables : (t \in old.tables /\ ~Unmakes(s, t)) \/ MakesTable(s, t)
    /\ s.does = "renameTable" => s.table \in old.tables
ColumnsStay(old, new, s) ==
    \A t, c : HasColumn(old, t, c) /\ ~Unmakes(s, t) /\ ~Leaves(s, t, c) => HasColumn(new, t, c)
ColumnsMade(old, new, s) ==
    /\ s.does \in {"create", "add", "change"} /\ (s.does = "create" => s.table \notin old.tables)
          => \A c \in Names(s.columns) : HasColumn(new, s.table, c)
    /\ s.does = "rename" => HasColumn(new, s.table, s.to)
    /\ s.does = "renameTable" => \A c : HasColumn(old, s.table, c) => HasColumn(new, s.to, c)

(* Where a column of the new database is from. *)
Kept(old, s, x) ==
    /\ x \in old.columns /\ ~Unmakes(s, x[1]) /\ ~Leaves(s, x[1], x[2])
    /\ s.does = "change" /\ x[1] = s.table => x[2] \notin Names(s.columns)
Fresh(old, s, x) ==
    /\ s.does \in {"create", "add", "change"} /\ x[1] = s.table
    /\ s.does = "create" => s.table \notin old.tables
    /\ s.does = "change" => HasColumn(old, x[1], x[2])
    /\ \E d \in s.columns : d[1] = x[2] /\ d[2] = x[3]
Renamed(old, s, x) ==
    /\ s.does = "rename" /\ x[1] = s.table /\ x[2] = s.to
    /\ \E y \in old.columns : y[1] = s.table /\ y[2] = s.column /\ y[3] = x[3]
Moved(old, s, x) ==
    /\ s.does = "renameTable" /\ x[1] = s.to
    /\ \E y \in old.columns : y[1] = s.table /\ y[2] = x[2] /\ y[3] = x[3]
ColumnsCome(old, new, s) ==
    \A x \in new.columns : Kept(old, s, x) \/ Fresh(old, s, x) \/ Renamed(old, s, x) \/ Moved(old, s, x)

IndexesStay(old, new, s) ==
    /\ \A j \in old.indexes :
          ~Unmakes(s, j.table) /\ ~Unindexes(s, j) /\ (\A c \in j.on : ~Leaves(s, j.table, c))
             => j \in new.indexes
    /\ s.does = "addIndex" => [table |-> s.table, index |-> s.index, on |-> s.on] \in new.indexes
SameIndex(s, i, j) ==
    /\ i.index = j.index
    /\ i.table = j.table \/ (s.does = "renameTable" /\ i.table = s.table /\ j.table = s.to)
    /\ i.on = j.on \/ \E c \in i.on : Leaves(s, i.table, c)
IndexesCome(old, new, s) ==
    \A j \in new.indexes :
       \/ \E i \in old.indexes : SameIndex(s, i, j)
       \/ s.does = "addIndex" /\ j = [table |-> s.table, index |-> s.index, on |-> s.on]

Effect(old, new, s) ==
    /\ TablesStay(old, new, s) /\ TablesCome(old, new, s)
    /\ ColumnsStay(old, new, s) /\ ColumnsMade(old, new, s) /\ ColumnsCome(old, new, s)
    /\ IndexesStay(old, new, s) /\ IndexesCome(old, new, s)

LEMMA CreateEffect ==
    ASSUME NEW db, Intact(db), NEW s, Plain(s), Accepts(db, s), s.does = "create"
    PROVE  Effect(db, Applied(db, s), s)
<1> DEFINE T == db.tables
           C == db.columns
           R == db.refers
           I == db.indexes
           t == s.table
           new == Applied(db, s)
<1>1. db = [tables |-> T, columns |-> C, refers |-> R, indexes |-> I] /\ Fits(T, C, R, I)
    BY DEF Intact
<1>2. CASE t \in T
  <2>1. new = db
      BY <1>2 DEF Applied
  <2> HIDE DEF new
  <2> QED
      BY <2>1, <1>2, <1>1 DEF new, Effect, TablesStay, TablesCome, ColumnsStay, ColumnsMade, ColumnsCome, IndexesStay,
            IndexesCome, Unmakes, MakesTable, Leaves, Unindexes, Kept, SameIndex
<1>3. CASE t \notin T
  <2>0. new = [tables |-> T \cup {t}, columns |-> C \cup ColumnsIn(t, s.columns),
               refers |-> R \cup {<<t, x>> : x \in s.refers}, indexes |-> I]
      BY <1>1, <1>3 DEF Applied
  <2>1. /\ new.tables = T \cup {t} /\ new.columns = C \cup ColumnsIn(t, s.columns)
        /\ new.indexes = I
      BY <2>0
  <2>2. /\ \A n \in Names(s.columns) : \E c \in ColumnsIn(t, s.columns) : c[1] = t /\ c[2] = n
      BY ColumnsInAre DEF Plain
  <2>3. ASSUME NEW x \in ColumnsIn(t, s.columns) PROVE Fresh(db, s, x)
      BY <2>3, <1>3 DEF ColumnsIn, Fresh
  <2> HIDE DEF new, T, C, I
  <2> USE DEF T, C, I
  <2>4. TablesStay(db, new, s) /\ TablesCome(db, new, s)
      BY <2>1 DEF TablesStay, TablesCome, MakesTable, Unmakes
  <2>5. ColumnsStay(db, new, s) /\ ColumnsMade(db, new, s)
      BY <2>1, <2>2 DEF ColumnsStay, ColumnsMade, HasColumn
  <2>6. ColumnsCome(db, new, s)
      BY <2>1, <2>3 DEF ColumnsCome, Kept, Unmakes, Leaves
  <2>7. IndexesStay(db, new, s) /\ IndexesCome(db, new, s)
      BY <2>1 DEF IndexesStay, IndexesCome, SameIndex
  <2> QED
      BY <2>4, <2>5, <2>6, <2>7 DEF Effect, new
<1> QED
    BY <1>2, <1>3

LEMMA DropEffect ==
    ASSUME NEW db, Intact(db), NEW s, Plain(s), Accepts(db, s), s.does = "drop"
    PROVE  Effect(db, Applied(db, s), s)
<1> DEFINE T == db.tables
           C == db.columns
           I == db.indexes
           new == Applied(db, s)
<1>1. db = [tables |-> T, columns |-> C, refers |-> db.refers, indexes |-> I]
    BY DEF Intact
<1>0. new = [tables |-> T \ {s.table}, columns |-> Elsewhere(C, s.table),
             refers |-> Elsewhere(db.refers, s.table), indexes |-> {i \in I : i.table # s.table}]
    BY <1>1 DEF Applied
<1>2. /\ new.tables = T \ {s.table} /\ new.columns = Elsewhere(C, s.table)
      /\ new.indexes = {i \in I : i.table # s.table}
    BY <1>0
<1> HIDE DEF new
<1>3. TablesStay(db, new, s) /\ TablesCome(db, new, s)
    BY <1>2 DEF TablesStay, TablesCome, MakesTable, Unmakes
<1>4. ColumnsStay(db, new, s) /\ ColumnsMade(db, new, s)
    BY <1>2 DEF ColumnsStay, ColumnsMade, HasColumn, Unmakes, Elsewhere
<1>5. ColumnsCome(db, new, s)
    BY <1>2 DEF ColumnsCome, Kept, Unmakes, Leaves, Elsewhere
<1>6. IndexesStay(db, new, s) /\ IndexesCome(db, new, s)
    BY <1>2 DEF IndexesStay, IndexesCome, SameIndex, Unmakes
<1> QED
    BY <1>3, <1>4, <1>5, <1>6 DEF Effect, new

LEMMA RenameTableEffect ==
    ASSUME NEW db, Intact(db), NEW s, Plain(s), Accepts(db, s), s.does = "renameTable"
    PROVE  Effect(db, Applied(db, s), s)
<1> DEFINE T == db.tables
           C == db.columns
           I == db.indexes
           named(x) == IF x = s.table THEN s.to ELSE x
           new == Applied(db, s)
<1>1. db = [tables |-> T, columns |-> C, refers |-> db.refers, indexes |-> I] /\ Fits(T, C, db.refers, I)
    BY DEF Intact
<1>0. new = [tables |-> {named(x) : x \in T}, columns |-> {<<named(x[1]), x[2], x[3]>> : x \in C},
             refers |-> {<<named(r[1]), named(r[2])>> : r \in db.refers},
             indexes |-> {[i EXCEPT !.table = named(@)] : i \in I}]
    BY <1>1 DEF Applied
<1>2. /\ new.tables = {named(x) : x \in T}
      /\ new.columns = {<<named(x[1]), x[2], x[3]>> : x \in C}
      /\ new.indexes = {[i EXCEPT !.table = named(@)] : i \in I}
    BY <1>0
<1>3. s.table \in T /\ s.to \notin T
    BY DEF Accepts
<1> HIDE DEF new
<1>4. TablesStay(db, new, s) /\ TablesCome(db, new, s)
    BY <1>2, <1>3 DEF TablesStay, TablesCome, MakesTable, Unmakes
<1>5. ASSUME NEW x \in C
      PROVE  \E y \in new.columns : y[1] = named(x[1]) /\ y[2] = x[2] /\ y[3] = x[3]
  <2>1. <<named(x[1]), x[2], x[3]>> \in new.columns
      BY <1>2
  <2> HIDE DEF named
  <2> QED
      BY <2>1
<1>6. ColumnsStay(db, new, s) /\ ColumnsMade(db, new, s)
    BY <1>5 DEF ColumnsStay, ColumnsMade, HasColumn, Unmakes
<1>7. ColumnsCome(db, new, s)
  <2> SUFFICES ASSUME NEW x \in new.columns PROVE Kept(db, s, x) \/ Moved(db, s, x)
      BY DEF ColumnsCome
  <2>1. PICK y \in C : x = <<named(y[1]), y[2], y[3]>>
      BY <1>2
  <2>2. y = <<y[1], y[2], y[3]>>
      BY <1>1 DEF Fits
  <2>3. CASE y[1] = s.table
      BY <2>1, <2>3 DEF Moved
  <2>4. CASE y[1] # s.table
    <3>1. x = y
        BY <2>1, <2>2, <2>4
    <3> QED
        BY <3>1, <2>4 DEF Kept, Unmakes, Leaves
  <2> QED
      BY <2>3, <2>4
<1>8. ASSUME NEW i \in I
      PROVE  /\ i = [table |-> i.table, index |-> i.index, on |-> i.on]
             /\ [i EXCEPT !.table = named(@)] = [table |-> named(i.table), index |-> i.index, on |-> i.on]
    BY <1>1 DEF Fits
<1>9. IndexesStay(db, new, s)
  <2>1. ASSUME NEW j \in I, ~Unmakes(s, j.table) PROVE j \in new.indexes
    <3>1. named(j.table) = j.table
        BY <2>1 DEF Unmakes
    <3>2. [j EXCEPT !.table = named(@)] \in new.indexes
        BY <1>2
    <3> HIDE DEF named
    <3> QED
        BY <3>1, <3>2, <1>8
  <2> QED
      BY <2>1 DEF IndexesStay
<1>10. IndexesCome(db, new, s)
  <2> SUFFICES ASSUME NEW j \in new.indexes PROVE \E i \in I : SameIndex(s, i, j)
      BY DEF IndexesCome
  <2>1. PICK i \in I : j = [i EXCEPT !.table = named(@)]
      BY <1>2
  <2>2. j = [table |-> named(i.table), index |-> i.index, on |-> i.on]
      BY <2>1, <1>8
  <2> QED
      BY <2>2 DEF SameIndex
<1> QED
    BY <1>4, <1>6, <1>7, <1>9, <1>10 DEF Effect, new

LEMMA AddEffect ==
    ASSUME NEW db, Intact(db), NEW s, Plain(s), Accepts(db, s), s.does = "add"
    PROVE  Effect(db, Applied(db, s), s)
<1> DEFINE T == db.tables
           C == db.columns
           I == db.indexes
           new == Applied(db, s)
<1>1. db = [tables |-> T, columns |-> C, refers |-> db.refers, indexes |-> I]
    BY DEF Intact
<1>2. new.tables = T /\ new.columns = C \cup ColumnsIn(s.table, s.columns) /\ new.indexes = I
    BY <1>1 DEF Applied
<1>3. \A n \in Names(s.columns) : \E c \in ColumnsIn(s.table, s.columns) : c[1] = s.table /\ c[2] = n
    BY ColumnsInAre DEF Plain
<1>4. ASSUME NEW x \in ColumnsIn(s.table, s.columns) PROVE Fresh(db, s, x)
    BY <1>4 DEF ColumnsIn, Fresh
<1> HIDE DEF new
<1>5. TablesStay(db, new, s) /\ TablesCome(db, new, s)
    BY <1>2 DEF TablesStay, TablesCome, MakesTable, Unmakes
<1>6. ColumnsStay(db, new, s) /\ ColumnsMade(db, new, s)
    BY <1>2, <1>3 DEF ColumnsStay, ColumnsMade, HasColumn
<1>7. ColumnsCome(db, new, s)
    BY <1>2, <1>4 DEF ColumnsCome, Kept, Unmakes, Leaves
<1>8. IndexesStay(db, new, s) /\ IndexesCome(db, new, s)
    BY <1>2 DEF IndexesStay, IndexesCome, SameIndex
<1> QED
    BY <1>5, <1>6, <1>7, <1>8 DEF Effect, new

LEMMA ChangeEffect ==
    ASSUME NEW db, Intact(db), NEW s, Plain(s), Accepts(db, s), s.does = "change"
    PROVE  Effect(db, Applied(db, s), s)
<1> DEFINE T == db.tables
           C == db.columns
           I == db.indexes
           new == Applied(db, s)
           left == {c \in C : c[1] = s.table => c[2] \notin Names(s.columns)}
<1>1. db = [tables |-> T, columns |-> C, refers |-> db.refers, indexes |-> I]
    BY DEF Intact
<1>2. new.tables = T /\ new.columns = left \cup ColumnsIn(s.table, s.columns) /\ new.indexes = I
    BY <1>1 DEF Applied
<1>3. \A n \in Names(s.columns) : \E c \in ColumnsIn(s.table, s.columns) : c[1] = s.table /\ c[2] = n
    BY ColumnsInAre DEF Plain
<1>4. ASSUME NEW x \in ColumnsIn(s.table, s.columns) PROVE Fresh(db, s, x)
  <2>1. PICK d \in s.columns : x = <<s.table, d[1], d[2]>>
      BY DEF ColumnsIn
  <2>2. d[1] \in Names(s.columns)
      BY NamesIs
  <2>3. HasColumn(db, s.table, d[1])
      BY <2>2, ColumnsOfIs DEF Accepts, HasColumn
  <2> QED
      BY <2>1, <2>3 DEF Fresh
<1> HIDE DEF new
<1>5. TablesStay(db, new, s) /\ TablesCome(db, new, s)
    BY <1>2 DEF TablesStay, TablesCome, MakesTable, Unmakes
<1>6. ColumnsStay(db, new, s) /\ ColumnsMade(db, new, s)
  <2>1. ASSUME NEW t, NEW c, HasColumn(db, t, c) PROVE HasColumn(new, t, c)
    <3>1. PICK x \in C : x[1] = t /\ x[2] = c
        BY <2>1 DEF HasColumn
    <3>2. CASE x \in left
        BY <3>1, <3>2, <1>2 DEF HasColumn
    <3>3. CASE x \notin left
        BY <3>1, <3>3, <1>2, <1>3 DEF HasColumn
    <3> QED
        BY <3>2, <3>3
  <2> QED
      BY <2>1, <1>2, <1>3 DEF ColumnsStay, ColumnsMade, HasColumn
<1>7. ColumnsCome(db, new, s)
    BY <1>2, <1>4 DEF ColumnsCome, Kept, Unmakes, Leaves
<1>8. IndexesStay(db, new, s) /\ IndexesCome(db, new, s)
    BY <1>2 DEF IndexesStay, IndexesCome, SameIndex
<1> QED
    BY <1>5, <1>6, <1>7, <1>8 DEF Effect, new

LEMMA RemoveEffect ==
    ASSUME NEW db, Intact(db), NEW s, Plain(s), Accepts(db, s), s.does = "remove"
    PROVE  Effect(db, Applied(db, s), s)
<1> DEFINE T == db.tables
           C == db.columns
           I == db.indexes
           t == s.table
           new == Applied(db, s)
<1>1. db = [tables |-> T, columns |-> C, refers |-> db.refers, indexes |-> I] /\ Fits(T, C, db.refers, I)
    BY DEF Intact
<1>0. new = [tables |-> T, columns |-> {c \in C : c[1] = t => c[2] # s.column},
             refers |-> db.refers, indexes |-> IndexesWithout(I, t, s.column)]
    BY <1>1 DEF Applied
<1>2. /\ new.tables = T /\ new.columns = {c \in C : c[1] = t => c[2] # s.column}
      /\ new.indexes = IndexesWithout(I, t, s.column)
    BY <1>0
<1> HIDE DEF new
<1>3. TablesStay(db, new, s) /\ TablesCome(db, new, s)
    BY <1>2 DEF TablesStay, TablesCome, MakesTable, Unmakes
<1>4. ColumnsStay(db, new, s) /\ ColumnsMade(db, new, s)
    BY <1>2 DEF ColumnsStay, ColumnsMade, HasColumn, Leaves
<1>5. ColumnsCome(db, new, s)
    BY <1>2 DEF ColumnsCome, Kept, Unmakes, Leaves
<1>6. \A i \in I : i = [table |-> i.table, index |-> i.index, on |-> i.on]
    BY <1>1 DEF Fits
<1>7. IndexesStay(db, new, s)
  <2>1. ASSUME NEW j \in I, \A c \in j.on : ~Leaves(s, j.table, c), j.on # {} PROVE j \in new.indexes
    <3>1. j.table = t => s.column \notin j.on
        BY <2>1 DEF Leaves
    <3>2. j.table = t => j.on # {s.column} /\ [j EXCEPT !.on = @ \ {s.column}] = j
      <4>1. s.column \notin j.on => j.on \ {s.column} = j.on
          OBVIOUS
      <4>2. [j EXCEPT !.on = @ \ {s.column}] = [table |-> j.table, index |-> j.index, on |-> j.on \ {s.column}]
          BY <1>6
      <4> QED
          BY <4>1, <4>2, <3>1, <1>6
    <3>3. (IF j.table = t THEN [j EXCEPT !.on = @ \ {s.column}] ELSE j) = j
        BY <3>2
    <3>4. j \in {i \in I : i.table = t => i.on # {s.column}}
        BY <3>2
    <3>5. (IF j.table = t THEN [j EXCEPT !.on = @ \ {s.column}] ELSE j) \in new.indexes
        BY <3>4, <1>2 DEF IndexesWithout
    <3> QED
        BY <3>3, <3>5
  <2>2. \A j \in I : j.on # {}
      BY <1>1 DEF Fits
  <2> QED
      BY <2>1, <2>2 DEF IndexesStay
<1>8. IndexesCome(db, new, s)
  <2> SUFFICES ASSUME NEW j \in new.indexes PROVE \E i \in I : SameIndex(s, i, j)
      BY DEF IndexesCome
  <2>1. PICK i \in I : j = IF i.table = t THEN [i EXCEPT !.on = @ \ {s.column}] ELSE i
      BY <1>2 DEF IndexesWithout
  <2>2. CASE i.table # t
      BY <2>1, <2>2 DEF SameIndex
  <2>3. CASE i.table = t
    <3>1. j = [table |-> i.table, index |-> i.index, on |-> i.on \ {s.column}]
        BY <2>1, <2>3, <1>6
    <3>2. s.column \notin i.on => i.on \ {s.column} = i.on
        OBVIOUS
    <3>3. s.column \in i.on => \E c \in i.on : Leaves(s, i.table, c)
        BY <2>3 DEF Leaves
    <3> QED
        BY <3>1, <3>2, <3>3 DEF SameIndex
  <2> QED
      BY <2>2, <2>3
<1> QED
    BY <1>3, <1>4, <1>5, <1>7, <1>8 DEF Effect, new

LEMMA RenameEffect ==
    ASSUME NEW db, Intact(db), NEW s, Plain(s), Accepts(db, s), s.does = "rename"
    PROVE  Effect(db, Applied(db, s), s)
<1> DEFINE T == db.tables
           C == db.columns
           I == db.indexes
           t == s.table
           named(x, c) == IF x = t /\ c = s.column THEN s.to ELSE c
           new == Applied(db, s)
<1>1. db = [tables |-> T, columns |-> C, refers |-> db.refers, indexes |-> I] /\ Fits(T, C, db.refers, I)
    BY DEF Intact
<1>0. new = [tables |-> T, columns |-> {<<c[1], named(c[1], c[2]), c[3]>> : c \in C},
             refers |-> db.refers,
             indexes |-> {[i EXCEPT !.on = {named(i.table, c) : c \in @}] : i \in I}]
    BY <1>1 DEF Applied
<1>2. /\ new.tables = T /\ new.columns = {<<c[1], named(c[1], c[2]), c[3]>> : c \in C}
      /\ new.indexes = {[i EXCEPT !.on = {named(i.table, c) : c \in @}] : i \in I}
    BY <1>0
<1>3. HasColumn(db, t, s.column) /\ ~HasColumn(db, t, s.to)
    BY ColumnsOfIs DEF Accepts, HasColumn
<1> HIDE DEF new
<1>4. TablesStay(db, new, s) /\ TablesCome(db, new, s)
    BY <1>2 DEF TablesStay, TablesCome, MakesTable, Unmakes
<1>5. ASSUME NEW x \in C
      PROVE  \E y \in new.columns : y[1] = x[1] /\ y[2] = named(x[1], x[2]) /\ y[3] = x[3]
  <2>1. <<x[1], named(x[1], x[2]), x[3]>> \in new.columns
      BY <1>2
  <2> HIDE DEF named
  <2> QED
      BY <2>1
<1>6. ColumnsStay(db, new, s)
    BY <1>5 DEF ColumnsStay, HasColumn, Leaves
<1>7. ColumnsMade(db, new, s)
    BY <1>5, <1>3 DEF ColumnsMade, HasColumn
<1>8. ColumnsCome(db, new, s)
  <2> SUFFICES ASSUME NEW x \in new.columns PROVE Kept(db, s, x) \/ Renamed(db, s, x)
      BY DEF ColumnsCome
  <2>1. PICK y \in C : x = <<y[1], named(y[1], y[2]), y[3]>>
      BY <1>2
  <2>2. y = <<y[1], y[2], y[3]>>
      BY <1>1 DEF Fits
  <2>3. CASE y[1] = t /\ y[2] = s.column
      BY <2>1, <2>3 DEF Renamed
  <2>4. CASE ~(y[1] = t /\ y[2] = s.column)
    <3>1. x = y
        BY <2>1, <2>2, <2>4
    <3> QED
        BY <3>1, <2>4 DEF Kept, Unmakes, Leaves
  <2> QED
      BY <2>3, <2>4
<1>9. ASSUME NEW i \in I
      PROVE  /\ i = [table |-> i.table, index |-> i.index, on |-> i.on]
             /\ [i EXCEPT !.on = {named(i.table, c) : c \in @}]
                   = [table |-> i.table, index |-> i.index, on |-> {named(i.table, c) : c \in i.on}]
             /\ (\A c \in i.on : ~Leaves(s, i.table, c)) => {named(i.table, c) : c \in i.on} = i.on
  <2>1. i = [table |-> i.table, index |-> i.index, on |-> i.on]
      BY <1>1 DEF Fits
  <2>2. (\A c \in i.on : ~Leaves(s, i.table, c)) => \A c \in i.on : named(i.table, c) = c
      BY DEF Leaves
  <2> HIDE DEF named
  <2> QED
      BY <2>1, <2>2
<1>10. IndexesStay(db, new, s)
  <2>1. ASSUME NEW j \in I, \A c \in j.on : ~Leaves(s, j.table, c) PROVE j \in new.indexes
    <3>1. [j EXCEPT !.on = {named(j.table, c) : c \in @}] \in new.indexes
        BY <1>2
    <3> HIDE DEF named
    <3> QED
        BY <3>1, <2>1, <1>9
  <2> QED
      BY <2>1 DEF IndexesStay
<1>11. IndexesCome(db, new, s)
  <2> SUFFICES ASSUME NEW j \in new.indexes PROVE \E i \in I : SameIndex(s, i, j)
      BY DEF IndexesCome
  <2>1. PICK i \in I : j = [i EXCEPT !.on = {named(i.table, c) : c \in @}]
      BY <1>2
  <2> HIDE DEF named
  <2>2. j = [table |-> i.table, index |-> i.index, on |-> {named(i.table, c) : c \in i.on}]
      BY <2>1, <1>9
  <2> QED
      BY <2>2, <1>9 DEF SameIndex
<1> QED
    BY <1>4, <1>6, <1>7, <1>8, <1>10, <1>11 DEF Effect, new

LEMMA IndexEffect ==
    ASSUME NEW db, Intact(db), NEW s, Plain(s), Accepts(db, s),
           s.does \in {"addIndex", "removeIndex", "query"}
    PROVE  Effect(db, Applied(db, s), s)
<1> DEFINE T == db.tables
           C == db.columns
           I == db.indexes
           new == Applied(db, s)
<1>1. db = [tables |-> T, columns |-> C, refers |-> db.refers, indexes |-> I]
    BY DEF Intact
<1> DEFINE d == IF s.does = "addIndex" THEN I \cup {[table |-> s.table, index |-> s.index, on |-> s.on]}
                ELSE IF s.does = "removeIndex" THEN {i \in I : i.table = s.table => i.index # s.index}
                ELSE I
<1>0. new = [tables |-> T, columns |-> C, refers |-> db.refers, indexes |-> d]
    BY <1>1 DEF Applied
<1>2. /\ new.tables = T /\ new.columns = C
      /\ s.does = "addIndex" => new.indexes = I \cup {[table |-> s.table, index |-> s.index, on |-> s.on]}
      /\ s.does = "removeIndex" => new.indexes = {i \in I : i.table = s.table => i.index # s.index}
      /\ s.does = "query" => new.indexes = I
    BY <1>0
<1> HIDE DEF new
<1>3. TablesStay(db, new, s) /\ TablesCome(db, new, s)
    BY <1>2 DEF TablesStay, TablesCome, MakesTable, Unmakes
<1>4. ColumnsStay(db, new, s) /\ ColumnsMade(db, new, s)
    BY <1>2 DEF ColumnsStay, ColumnsMade, HasColumn
<1>5. ColumnsCome(db, new, s)
    BY <1>2 DEF ColumnsCome, Kept, Unmakes, Leaves
<1>6. IndexesStay(db, new, s) /\ IndexesCome(db, new, s)
    BY <1>2 DEF IndexesStay, IndexesCome, SameIndex, Unindexes
<1> QED
    BY <1>3, <1>4, <1>5, <1>6 DEF Effect, new

LEMMA StatementEffect ==
    ASSUME NEW db, Intact(db), NEW s, Plain(s), Accepts(db, s)
    PROVE  Effect(db, Applied(db, s), s)
BY CreateEffect, DropEffect, RenameTableEffect, AddEffect, ChangeEffect, RemoveEffect, RenameEffect,
   IndexEffect DEF Plain

-----------------------------------------------------------------------------
(* What the database is like whatever failed, at position here.             *)

(* A table has the columns it was made with and keeps.                      *)
Based(db) == \A t \in db.tables : \A c \in BaseOf(t) : HasColumn(db, t, c)
(* A value is needed of no column that a model does not name, but of one     *)
(* that a later migration removes.                                          *)
AsksRight(db) == \A x \in db.columns : "value" \in x[3] => MayAsk(x[1], x[2])
(* An index that has the name of a new one is that one.                     *)
IsIndex(j, i) == j.table = NewIndexes[i].table /\ j.index = NewIndexes[i].index
Indexed(db) == \A j \in db.indexes : \A i \in 1..27 : IsIndex(j, i) => j.on = NewIndexes[i].on
(* The one of data_source is there only once that column is no text.        *)
LateIn(db, here) == \A j \in db.indexes : IsIndex(j, 4) => here > 4600

World(db, here) == Based(db) /\ AsksRight(db) /\ Indexed(db) /\ LateIn(db, here)

(* What the migrations before position p have made for good.                *)
TablesMade(db, p) == \A t : MadeAt(t) < p => t \in db.tables
ColumnsAdded(db, p) == \A t, c : AddedAt(t, c) < p => HasColumn(db, t, c)
ColumnsGone(db, p) == \A t, c : GoneAt(t, c) < p => ~HasColumn(db, t, c)
IndexesMade(db, p) == \A i \in 1..27 : 4600 + i < p => IndexFact(i) \in db.indexes

Facts(db, p) ==
    TablesMade(db, p) /\ ColumnsAdded(db, p) /\ ColumnsGone(db, p) /\ IndexesMade(db, p)

(* What a statement may not do, while the facts before p are to be kept.     *)
Asking == {<<"finality", "ask">>, <<"ask", "finality">>, <<"finality_response", "ask_response">>,
           <<"ask_response", "finality_response">>}
Orderly(p, s) ==
    /\ s.does \in {"drop", "renameTable"} => MadeAt(s.table) >= p
    /\ s.does \in {"remove", "rename"} =>
          s.column \notin BaseOf(s.table) /\ AddedAt(s.table, s.column) >= p
    /\ s.does \in {"create", "add", "change"} =>
          \A c \in s.columns : "value" \in c[2] => MayAsk(s.table, c[1])
    /\ s.does \in {"create", "add"} => \A c \in Names(s.columns) : GoneAt(s.table, c) >= p
    /\ s.does = "create" => BaseOf(s.table) \subseteq Names(s.columns)
    /\ s.does = "rename" => GoneAt(s.table, s.to) >= p /\ MayAsk(s.table, s.to)
    /\ s.does = "renameTable" => <<s.table, s.to>> \in Asking
    /\ s.does = "addIndex" =>
          \A i \in 1..27 : NewIndexes[i].index = s.index => s.on = NewIndexes[i].on /\ p = 4600 + i
    /\ s.does = "removeIndex" => \A i \in 1..27 : NewIndexes[i].index = s.index => p <= 4600 + i

LEMMA NewIndexesAre ==
    \A i \in 1..27 :
       /\ MadeAt(NewIndexes[i].table) < 4600
       /\ \A c \in NewIndexes[i].on :
             \/ c \in BaseOf(NewIndexes[i].table)
             \/ i = 4 /\ AddedAt(NewIndexes[i].table, c) = 4401
       /\ NewIndexes[i].table \notin {"finality", "ask", "finality_response", "ask_response"}
<1> DEFINE Is(i, s) ==
       /\ MadeAt(s.table) < 4600
       /\ \A c \in s.on : \/ c \in BaseOf(s.table)
                          \/ i = 4 /\ AddedAt(s.table, c) = 4401
       /\ s.table \notin {"finality", "ask", "finality_response", "ask_response"}
<1>1. Is(1, NewIndexes[1]) /\ Is(2, NewIndexes[2]) /\ Is(3, NewIndexes[3])
    BY NewIndexesIs, MadeAtIs, BaseOfIs DEF AddIndex
<1>2. Is(4, NewIndexes[4])
    BY NewIndexesIs, MadeAtIs, BaseOfIs DEF AddIndex, AddedAt
<1>3. Is(5, NewIndexes[5]) /\ Is(6, NewIndexes[6]) /\ Is(7, NewIndexes[7])
    BY NewIndexesIs, MadeAtIs, BaseOfIs DEF AddIndex
<1>4. Is(8, NewIndexes[8]) /\ Is(9, NewIndexes[9]) /\ Is(10, NewIndexes[10]) /\ Is(11, NewIndexes[11])
    BY NewIndexesIs, MadeAtIs, BaseOfIs DEF AddIndex
<1>5. Is(12, NewIndexes[12]) /\ Is(13, NewIndexes[13]) /\ Is(14, NewIndexes[14]) /\ Is(15, NewIndexes[15])
    BY NewIndexesIs, MadeAtIs, BaseOfIs DEF AddIndex
<1>6. Is(16, NewIndexes[16]) /\ Is(17, NewIndexes[17]) /\ Is(18, NewIndexes[18]) /\ Is(19, NewIndexes[19])
    BY NewIndexesIs, MadeAtIs, BaseOfIs DEF AddIndex
<1>7. Is(20, NewIndexes[20]) /\ Is(21, NewIndexes[21]) /\ Is(22, NewIndexes[22]) /\ Is(23, NewIndexes[23])
    BY NewIndexesIs, MadeAtIs, BaseOfIs DEF AddIndex
<1>8. Is(24, NewIndexes[24]) /\ Is(25, NewIndexes[25]) /\ Is(26, NewIndexes[26]) /\ Is(27, NewIndexes[27])
    BY NewIndexesIs, MadeAtIs, BaseOfIs DEF AddIndex
<1> HIDE DEF Is
<1>9. \A i \in 1..27 : Is(i, NewIndexes[i])
    BY <1>1, <1>2, <1>3, <1>4, <1>5, <1>6, <1>7, <1>8
<1> QED
    BY <1>9 DEF Is

LEMMA AskingAlike ==
    \A t, u : <<t, u>> \in Asking =>
       /\ \A c : MayAsk(t, c) => MayAsk(u, c)
       /\ \A c : GoneAt(u, c) = Never
       /\ BaseOf(u) = BaseOf(t)
       /\ u \in {"finality", "ask", "finality_response", "ask_response"}
BY DEF Asking, MayAsk, WrittenTables, BaseOf, AddedAt, GoneAt, Never

LEMMA WorldKept ==
    ASSUME NEW db, NEW new, NEW s, Effect(db, new, s), NEW p \in Int, Orderly(p, s), NEW here \in Int,
           here <= p + 100, World(db, here)
    PROVE  Based(new) /\ AsksRight(new) /\ Indexed(new)
<1>1. Based(new)
  <2> SUFFICES ASSUME NEW t \in new.tables, NEW c \in BaseOf(t) PROVE HasColumn(new, t, c)
      BY DEF Based
  <2>1. CASE t \in db.tables /\ ~Unmakes(s, t)
    <3>1. ~Leaves(s, t, c)
        BY DEF Orderly, Leaves
    <3>2. HasColumn(db, t, c)
        BY <2>1 DEF World, Based
    <3> QED
        BY <3>1, <3>2, <2>1 DEF Effect, ColumnsStay
  <2>2. CASE s.does = "create" /\ s.table = t /\ t \notin db.tables
      BY <2>2 DEF Effect, ColumnsMade, Orderly
  <2>3. CASE s.does = "renameTable" /\ s.to = t
    <3>1. s.table \in db.tables
        BY <2>3 DEF Effect, TablesCome
    <3>2. BaseOf(s.table) = BaseOf(s.to)
        BY <2>3, AskingAlike DEF Orderly
    <3>3. HasColumn(db, s.table, c)
        BY <3>1, <3>2, <2>3 DEF World, Based
    <3> QED
        BY <3>3, <2>3 DEF Effect, ColumnsMade
  <2> QED
      BY <2>1, <2>2, <2>3 DEF Effect, TablesCome, MakesTable, Unmakes
<1>2. AsksRight(new)
  <2> SUFFICES ASSUME NEW x \in new.columns, "value" \in x[3] PROVE MayAsk(x[1], x[2])
      BY DEF AsksRight
  <2>1. CASE Kept(db, s, x)
      BY <2>1 DEF World, AsksRight, Kept
  <2>2. CASE Fresh(db, s, x)
      BY <2>2 DEF Fresh, Orderly
  <2>3. CASE Renamed(db, s, x)
      BY <2>3 DEF Renamed, Orderly
  <2>4. CASE Moved(db, s, x)
    <3>1. PICK y \in db.columns : y[1] = s.table /\ y[2] = x[2] /\ y[3] = x[3]
        BY <2>4 DEF Moved
    <3>2. MayAsk(s.table, x[2])
        BY <3>1 DEF World, AsksRight
    <3> QED
        BY <3>2, <2>4, AskingAlike DEF Moved, Orderly
  <2> QED
      BY <2>1, <2>2, <2>3, <2>4 DEF Effect, ColumnsCome
<1>3. Indexed(new)
  <2> SUFFICES ASSUME NEW j \in new.indexes, NEW i \in 1..27, IsIndex(j, i)
               PROVE  j.on = NewIndexes[i].on
      BY DEF Indexed
  <2>1. CASE \E k \in db.indexes : SameIndex(s, k, j)
    <3>1. PICK k \in db.indexes : SameIndex(s, k, j)
        BY <2>1
    <3>2. k.table = j.table /\ k.index = j.index
        BY <3>1, NewIndexesAre, AskingAlike DEF SameIndex, Orderly, IsIndex
    <3>3. k.on = NewIndexes[i].on /\ (i = 4 => here > 4600)
        BY <3>2 DEF World, Indexed, LateIn, IsIndex
    <3>4. ASSUME NEW c \in k.on, Leaves(s, k.table, c) PROVE FALSE
      <4>1. c \notin BaseOf(j.table) /\ AddedAt(j.table, c) >= p
          BY <3>2, <3>4 DEF Leaves, Orderly
      <4>2. i = 4 /\ AddedAt(j.table, c) = 4401
          BY <4>1, <3>3, NewIndexesAre DEF IsIndex
      <4> QED
          BY <4>1, <4>2, <3>3
    <3> QED
        BY <3>1, <3>3, <3>4 DEF SameIndex
  <2>2. CASE s.does = "addIndex" /\ j = [table |-> s.table, index |-> s.index, on |-> s.on]
      BY <2>2 DEF Orderly, IsIndex
  <2> QED
      BY <2>1, <2>2 DEF Effect, IndexesCome
<1> QED
    BY <1>1, <1>2, <1>3

LEMMA FactsKept ==
    ASSUME NEW db, NEW new, NEW s, Effect(db, new, s), NEW p \in Int, p <= Never, Orderly(p, s),
           Facts(db, p)
    PROVE  Facts(new, p)
<1>1. TablesMade(new, p)
  <2> SUFFICES ASSUME NEW t, MadeAt(t) < p PROVE t \in new.tables
      BY DEF TablesMade
  <2>1. ~Unmakes(s, t)
      BY PositionsAre DEF Unmakes, Orderly
  <2> QED
      BY <2>1 DEF Facts, TablesMade, Effect, TablesStay
<1>2. ColumnsAdded(new, p)
  <2> SUFFICES ASSUME NEW t, NEW c, AddedAt(t, c) < p PROVE HasColumn(new, t, c)
      BY DEF ColumnsAdded
  <2>1. ~Unmakes(s, t) /\ ~Leaves(s, t, c)
      BY PositionsAre DEF Unmakes, Leaves, Orderly
  <2> QED
      BY <2>1 DEF Facts, ColumnsAdded, Effect, ColumnsStay
<1>3. ColumnsGone(new, p)
  <2> SUFFICES ASSUME NEW x \in new.columns, GoneAt(x[1], x[2]) < p PROVE FALSE
      BY DEF ColumnsGone, HasColumn
  <2>1. ~HasColumn(db, x[1], x[2]) /\ GoneAt(x[1], x[2]) \in Int
      BY PositionsAre DEF Facts, ColumnsGone
  <2>2. CASE Kept(db, s, x)
      BY <2>1, <2>2 DEF Kept, HasColumn
  <2>3. CASE Fresh(db, s, x)
    <3>1. s.does # "change" /\ x[2] \in Names(s.columns)
        BY <2>1, <2>3, NamesIs DEF Fresh
    <3> QED
        BY <3>1, <2>1, <2>3 DEF Fresh, Orderly
  <2>4. CASE Renamed(db, s, x)
      BY <2>1, <2>4 DEF Renamed, Orderly
  <2>5. CASE Moved(db, s, x)
      BY <2>1, <2>5, AskingAlike DEF Moved, Orderly
  <2> QED
      BY <2>2, <2>3, <2>4, <2>5 DEF Effect, ColumnsCome
<1>4. IndexesMade(new, p)
  <2> SUFFICES ASSUME NEW i \in 1..27, 4600 + i < p PROVE IndexFact(i) \in new.indexes
      BY DEF IndexesMade
  <2> DEFINE j == IndexFact(i)
  <2>1. /\ j \in db.indexes /\ j.table = NewIndexes[i].table /\ j.index = NewIndexes[i].index
        /\ j.on = NewIndexes[i].on
      BY DEF Facts, IndexesMade, IndexFact
  <2> HIDE DEF j
  <2>2. ~Unmakes(s, j.table)
    <3>1. MadeAt(j.table) < p
        BY <2>1, NewIndexesAre, PositionsAre
    <3> QED
        BY <3>1, PositionsAre DEF Unmakes, Orderly
  <2>3. ~Unindexes(s, j)
      BY <2>1 DEF Unindexes, Orderly
  <2>4. ASSUME NEW c \in j.on PROVE ~Leaves(s, j.table, c)
    <3>1. c \in BaseOf(j.table) \/ AddedAt(j.table, c) = 4401
        BY <2>1, NewIndexesAre
    <3> QED
        BY <3>1 DEF Leaves, Orderly
  <2>5. j \in new.indexes
      BY <2>1, <2>2, <2>3, <2>4 DEF Effect, IndexesStay
  <2> QED
      BY <2>5 DEF j
<1> QED
    BY <1>1, <1>2, <1>3, <1>4 DEF Facts

-----------------------------------------------------------------------------
(* What the database is like while nothing failed, at position p.           *)

TableFrom(t) == CASE t = "finality" -> 5301 [] t = "finality_response" -> 5401 [] OTHER -> MadeAt(t)
TableUntil(t) == CASE t = "finality" -> 5501 [] t = "finality_response" -> 5502 [] OTHER -> 0
StandsAt(t, p) == TableFrom(t) < p /\ p <= TableUntil(t)

(* A column is not there yet. *)
NotBefore(t, c) ==
    CASE t = "publish" /\ c = "agreementId" -> 1701
      [] t = "publish" /\ c = "agreementStatus" -> 1702
      [] t = "event" /\ c = "blockchain_id" -> 2801
      [] t = "service_agreement" /\ c = "data_source" -> 3401
      [] t = "missed_paranet_asset" /\ c = "error_message" -> 4101
      [] t = "paranet_synced_asset" /\ c = "data_source" -> 4401
      [] t = "publish_response" /\ c = "dataset_root" -> 4701
      [] t = "get_response" /\ c = "dataset_root" -> 4702
      [] t = "commands" /\ c = "priority" -> 4801
      [] t = "commands" /\ c = "is_blocking" -> 4901
      [] t = "blockchain_event" /\ c = "blockchain" -> 5101
      [] t = "blockchain_event" /\ c = "block_number" -> 5103
      [] t = "blockchain_event" /\ c = "transaction_index" -> 5104
      [] t = "blockchain_event" /\ c = "log_index" -> 5105
      [] t = "blockchain_event" /\ c = "contract_address" -> 5106
      [] t = "blockchain" /\ c = "blockchain" -> 5202
      [] t = "operation_ids" /\ c = "min_acks_reached" -> 5901
      [] OTHER -> 0

(* A column that is there until it goes for good. *)
FromAt(t, c) ==
    CASE t = "publish_response" /\ c = "keyword" -> 401
      [] t = "get_response" /\ c = "keyword" -> 601
      [] t = "blockchain_event" /\ c = "blockchain_id" -> 1401
      [] t = "blockchain_event" /\ c = "block" -> 1401
      [] t = "blockchain" /\ c = "blockchain_id" -> 1601
      [] t = "blockchain" /\ c = "contract" -> 1601
      [] t = "missed_paranet_asset" /\ c = "knowledge_asset_id" -> 3601
      [] t = "publish_response" /\ c = "dataset_root" -> 4701
      [] t = "get_response" /\ c = "dataset_root" -> 4702
      [] t = "blockchain" /\ c = "blockchain" -> 5202
      [] OTHER -> Never

MayText(p, t, c) ==
    \/ c \in {"message", "data", "value1", "value2", "value3", "error_message"}
    \/ t = "paranet_synced_asset" /\ c = "data_source" /\ p <= 4501

(* An index is not there yet. *)
NamedAt(x) ==
    CASE x = "idx_blockchain_event_processed" -> 2701
      [] x = "before_insert_paranet_synced_asset" -> 3802
      [] x = "before_update_paranet_synced_asset" -> 3803
      [] x = "idx_paranet_ual_created_at" -> 3804
      [] x = "idx_sender" -> 3805
      [] x = "idx_paranet_ual_unique" -> 3806
      [] x = "finality_status_ual_peer_id_uk" -> 5702
      [] OTHER -> 4600

NoTableEarly(db, p) == \A t \in db.tables : TableFrom(t) < p
TablesStand(db, p, q) == \A t : TableFrom(t) < q /\ p <= TableUntil(t) => t \in db.tables
NoColumnEarly(db, p) == \A x \in db.columns : NotBefore(x[1], x[2]) < p
ColumnsStand(db, p, q) == \A t, c : FromAt(t, c) < q /\ p <= GoneAt(t, c) => HasColumn(db, t, c)
TextsOnly(db, p) == \A x \in db.columns : "text" \in x[3] => MayText(p, x[1], x[2])
NoIndexEarly(db, p) == \A j \in db.indexes : NamedAt(j.index) < p

Clean(db, p) ==
    /\ NoTableEarly(db, p) /\ TablesStand(db, p, p)
    /\ NoColumnEarly(db, p) /\ ColumnsStand(db, p, p)
    /\ TextsOnly(db, p) /\ NoIndexEarly(db, p)

(* What a statement may not do at p, while nothing failed. *)
Tidy(p, s) ==
    /\ s.does = "create" => TableFrom(s.table) <= p
    /\ s.does = "renameTable" => TableFrom(s.to) <= p /\ s.to \in {"ask", "ask_response"}
    /\ s.does \in {"drop", "renameTable"} => TableUntil(s.table) <= p
          /\ \A c : FromAt(s.table, c) = Never /\ s.table # "paranet_synced_asset"
    /\ s.does \in {"remove", "rename"} =>
          FromAt(s.table, s.column) >= p \/ GoneAt(s.table, s.column) <= p
    /\ s.does \in {"create", "add"} => \A c \in Names(s.columns) : NotBefore(s.table, c) <= p
    /\ s.does = "rename" => NotBefore(s.table, s.to) <= p /\ ~MayText(p, s.table, s.column)
    /\ s.does \in {"create", "add", "change"} =>
          \A c \in s.columns : "text" \in c[2] => MayText(p + 1, s.table, c[1])
    /\ p = 4501 => s = ChangeColumn("paranet_synced_asset", May({"data_source"}))
    /\ s.does = "addIndex" => NamedAt(s.index) <= p

(* Why a statement is taken at p, while nothing failed. *)
TableThere(p, t) == MadeAt(t) < p \/ StandsAt(t, p)
ColumnThere(p, t, c) ==
    \/ TableThere(p, t) /\ c \in BaseOf(t)
    \/ AddedAt(t, c) < p
    \/ FromAt(t, c) < p /\ p <= GoneAt(t, c)

Prepared(p, s) ==
    /\ s.does = "create" => \A t \in s.refers : TableThere(p, t)
    /\ s.does = "renameTable" => TableThere(p, s.table) /\ p <= TableFrom(s.to)
    /\ s.does = "add" => TableThere(p, s.table) /\ \A c \in Names(s.columns) : p <= NotBefore(s.table, c)
    /\ s.does = "remove" => ColumnThere(p, s.table, s.column)
    /\ s.does = "change" =>
          /\ \A c \in Names(s.columns) : ColumnThere(p, s.table, c)
          /\ (\A c \in s.columns : "text" \notin c[2]) \/ p <= 2701
    /\ s.does = "rename" => ColumnThere(p, s.table, s.column) /\ p <= NotBefore(s.table, s.to)
    /\ s.does = "addIndex" =>
          /\ \A c \in s.on : ColumnThere(p, s.table, c) /\ ~MayText(p, s.table, c)
          /\ p <= NamedAt(s.index)
    /\ s.does = "query" => TableThere(p, s.table) /\ \A c \in s.on : ColumnThere(p, s.table, c)
    /\ s.does \notin {"drop", "removeIndex"}

(* One that looks first is taken for less. *)
ReadyIfNeeded(p, s) ==
    /\ s.does = "add" => TableThere(p, s.table)
    /\ s.does = "rename" => p <= NotBefore(s.table, s.to)
    /\ s.does = "addIndex" => \A c \in s.on : ColumnThere(p, s.table, c) /\ ~MayText(p, s.table, c)
    /\ s.does \in {"add", "remove", "rename", "addIndex"}

UpFine(p, s) ==
    /\ Orderly(p, Inner(s)) /\ Tidy(p, Inner(s))
    /\ IF s.does = "ifNeeded" THEN ReadyIfNeeded(p, s.what) ELSE Prepared(p, s)

LEMMA NamesAre ==
    /\ \A names : Names(Must(names)) = names /\ Names(May(names)) = names /\ Names(Text(names)) = names
    /\ \A a, b : Names(a \cup b) = Names(a) \cup Names(b)
    /\ \A c, x : Names({<<c, x>>}) = {c}
<1>1. \A names, x : Names({<<c, x>> : c \in names}) = names
  <2> SUFFICES ASSUME NEW names, NEW x PROVE Names({<<c, x>> : c \in names}) = names
      OBVIOUS
  <2>1. ASSUME NEW n \in names PROVE n \in Names({<<c, x>> : c \in names})
    <3>1. <<n, x>> \in {<<c, x>> : c \in names} /\ <<n, x>>[1] = n
        OBVIOUS
    <3> QED
        BY <3>1, NamesIs
  <2>2. ASSUME NEW n \in Names({<<c, x>> : c \in names}) PROVE n \in names
    <3>1. PICK d \in {<<c, x>> : c \in names} : d[1] = n
        BY <2>2, NamesIs
    <3> QED
        BY <3>1
  <2> QED
      BY <2>1, <2>2
<1>2. \A a, b : Names(a \cup b) = Names(a) \cup Names(b)
    BY DEF Names
<1>3. \A c, x : Names({<<c, x>>}) = {c}
    BY DEF Names
<1>4. ASSUME NEW names
      PROVE  Names(Must(names)) = names /\ Names(May(names)) = names /\ Names(Text(names)) = names
  <2>1. /\ Names({<<c, {"value"}>> : c \in names}) = names
        /\ Names({<<c, {}>> : c \in names}) = names
        /\ Names({<<c, {"text"}>> : c \in names}) = names
      BY <1>1
  <2> QED
      BY <2>1 DEF Must, May, Text
<1> QED
    BY <1>2, <1>3, <1>4

LEMMA NamedFrom == \A x, v : v = NamedAt(x) => v \in Nat /\ v >= 2701
BY DEF NamedAt

LEMMA CleanKept ==
    ASSUME NEW db, NEW new, NEW s, Effect(db, new, s), NEW p \in Nat, p < Never, Tidy(p, s), Clean(db, p)
    PROVE  /\ NoTableEarly(new, p + 1) /\ TablesStand(new, p + 1, p)
           /\ NoColumnEarly(new, p + 1) /\ ColumnsStand(new, p + 1, p)
           /\ TextsOnly(new, p + 1) /\ NoIndexEarly(new, p + 1)
<1>0. \A t : TableFrom(t) \in Nat /\ TableUntil(t) \in Nat
    BY PositionsAre DEF TableFrom, TableUntil
<1>1. NoTableEarly(new, p + 1)
  <2> SUFFICES ASSUME NEW t \in new.tables PROVE TableFrom(t) < p + 1
      BY DEF NoTableEarly
  <2>1. CASE t \in db.tables
      BY <2>1, <1>0 DEF Clean, NoTableEarly
  <2>2. CASE MakesTable(s, t)
      BY <2>2, <1>0 DEF MakesTable, Tidy
  <2> QED
      BY <2>1, <2>2 DEF Effect, TablesCome
<1>2. TablesStand(new, p + 1, p)
  <2> SUFFICES ASSUME NEW t, TableFrom(t) < p, p + 1 <= TableUntil(t) PROVE t \in new.tables
      BY DEF TablesStand
  <2>1. t \in db.tables /\ ~Unmakes(s, t)
      BY <1>0 DEF Clean, TablesStand, Tidy, Unmakes
  <2> QED
      BY <2>1 DEF Effect, TablesStay
<1>3. \A t, c, v : v = NotBefore(t, c) => v \in Nat /\ (t \in {"ask", "ask_response"} => v = 0)
    BY DEF NotBefore
<1>4. NoColumnEarly(new, p + 1)
  <2> SUFFICES ASSUME NEW x \in new.columns PROVE NotBefore(x[1], x[2]) < p + 1
      BY DEF NoColumnEarly
  <2>1. CASE Kept(db, s, x)
      BY <2>1, <1>3 DEF Kept, Clean, NoColumnEarly
  <2>2. CASE Fresh(db, s, x)
    <3>1. x[2] \in Names(s.columns)
        BY <2>2, NamesIs DEF Fresh
    <3>2. CASE s.does = "change"
        BY <2>2, <3>2, <1>3 DEF Fresh, HasColumn, Clean, NoColumnEarly
    <3>3. CASE s.does # "change"
        BY <2>2, <3>1, <3>3, <1>3 DEF Fresh, Tidy
    <3> QED
        BY <3>2, <3>3
  <2>3. CASE Renamed(db, s, x)
      BY <2>3, <1>3 DEF Renamed, Tidy
  <2>4. CASE Moved(db, s, x)
      BY <2>4, <1>3 DEF Moved, Tidy
  <2> QED
      BY <2>1, <2>2, <2>3, <2>4 DEF Effect, ColumnsCome
<1>5. ColumnsStand(new, p + 1, p)
  <2>1. \A t, c, v : v = FromAt(t, c) => v \in Nat
      BY PositionsAre DEF FromAt
  <2> SUFFICES ASSUME NEW t, NEW c, FromAt(t, c) < p, p + 1 <= GoneAt(t, c) PROVE HasColumn(new, t, c)
      BY DEF ColumnsStand
  <2>2. HasColumn(db, t, c)
      BY PositionsAre DEF Clean, ColumnsStand
  <2>3. ~Unmakes(s, t) /\ ~Leaves(s, t, c)
      BY <2>1, PositionsAre DEF Tidy, Unmakes, Leaves
  <2> QED
      BY <2>2, <2>3 DEF Effect, ColumnsStay
<1>6. TextsOnly(new, p + 1)
  <2> SUFFICES ASSUME NEW x \in new.columns, "text" \in x[3] PROVE MayText(p + 1, x[1], x[2])
      BY DEF TextsOnly
  <2>1. CASE Kept(db, s, x)
    <3>1. MayText(p, x[1], x[2])
        BY <2>1 DEF Kept, Clean, TextsOnly
    <3>2. CASE p = 4501
      <4>1. /\ s.does = "change" /\ s.table = "paranet_synced_asset"
            /\ s.columns = May({"data_source"})
          BY <3>2 DEF Tidy, ChangeColumn
      <4>2. "data_source" \in Names(s.columns)
          BY <4>1, NamesAre
      <4> QED
          BY <4>1, <4>2, <2>1, <3>1 DEF Kept, MayText
    <3>3. CASE p # 4501
        BY <3>1, <3>3 DEF MayText
    <3> QED
        BY <3>2, <3>3
  <2>2. CASE Fresh(db, s, x)
      BY <2>2 DEF Fresh, Tidy
  <2>3. CASE Renamed(db, s, x)
      BY <2>3 DEF Renamed, Tidy, Clean, TextsOnly
  <2>4. CASE Moved(db, s, x)
    <3>1. PICK y \in db.columns : y[1] = s.table /\ y[2] = x[2] /\ y[3] = x[3]
        BY <2>4 DEF Moved
    <3>2. MayText(p, s.table, x[2])
        BY <3>1 DEF Clean, TextsOnly
    <3>3. s.table # "paranet_synced_asset"
        BY <2>4 DEF Moved, Tidy
    <3> QED
        BY <3>2, <3>3 DEF MayText
  <2> QED
      BY <2>1, <2>2, <2>3, <2>4 DEF Effect, ColumnsCome
<1>7. NoIndexEarly(new, p + 1)
  <2> SUFFICES ASSUME NEW j \in new.indexes PROVE NamedAt(j.index) < p + 1
      BY DEF NoIndexEarly
  <2>1. CASE \E i \in db.indexes : SameIndex(s, i, j)
      BY <2>1, NamedFrom DEF SameIndex, Clean, NoIndexEarly
  <2>2. CASE s.does = "addIndex" /\ j = [table |-> s.table, index |-> s.index, on |-> s.on]
      BY <2>2, NamedFrom DEF Tidy
  <2> QED
      BY <2>1, <2>2 DEF Effect, IndexesCome
<1> QED
    BY <1>1, <1>2, <1>4, <1>5, <1>6, <1>7

LEMMA ReadyTaken ==
    ASSUME NEW db, NEW p \in Nat, World(db, p), Facts(db, p), Clean(db, p), NEW s, GoodStatement(s),
           IF s.does = "ifNeeded" THEN ReadyIfNeeded(p, s.what) ELSE Prepared(p, s)
    PROVE  Takes(db, s)
<1>1. \A t : TableThere(p, t) => t \in db.tables
    BY DEF TableThere, StandsAt, Facts, TablesMade, Clean, TablesStand
<1>2. \A t, c : ColumnThere(p, t, c) => c \in ColumnsOf(db, t)
  <2>1. \A t, c : ColumnThere(p, t, c) => HasColumn(db, t, c)
      BY <1>1 DEF ColumnThere, World, Based, Facts, ColumnsAdded, Clean, ColumnsStand
  <2> QED
      BY <2>1, ColumnsOfIs DEF HasColumn
<1>3. \A t, c : p <= NotBefore(t, c) => c \notin ColumnsOf(db, t)
  <2>1. \A t, c, v : v = NotBefore(t, c) => v \in Nat
      BY DEF NotBefore
  <2> QED
      BY <2>1, ColumnsOfIs DEF Clean, NoColumnEarly
<1>4. \A t, x : p <= NamedAt(x) => x \notin IndexesOf(db, t)
    BY NamedFrom DEF IndexesOf, Clean, NoIndexEarly
<1>5. p <= 2701 => db.indexes = {}
    BY NamedFrom DEF Clean, NoIndexEarly
<1>6. ASSUME NEW t, NEW on, \A c \in on : ~MayText(p, t, c)
      PROVE  NoText(on, {<<c[2], c[3]>> : c \in {d \in db.columns : d[1] = t}})
  <2> SUFFICES ASSUME NEW x \in db.columns, x[1] = t, x[2] \in on PROVE "text" \notin x[3]
      BY DEF NoText
  <2> QED
      BY <1>6 DEF Clean, TextsOnly
<1>7. ASSUME s.does = "ifNeeded" PROVE Takes(db, s)
  <2> DEFINE w == s.what
  <2>1. ReadyIfNeeded(p, w)
      BY <1>7
  <2>2. Takes(db, s) <=> (Needed(db, w) => Accepts(db, w))
      BY <1>7 DEF Takes
  <2> HIDE DEF w
  <2>3. CASE w.does = "add"
      BY <2>1, <2>2, <2>3, <1>1 DEF ReadyIfNeeded, Needed, Accepts
  <2>4. CASE w.does = "remove"
      BY <2>2, <2>4 DEF Needed, Accepts
  <2>5. CASE w.does = "rename"
      BY <2>1, <2>2, <2>5, <1>3 DEF ReadyIfNeeded, Needed, Accepts
  <2>6. CASE w.does = "addIndex"
      BY <2>1, <2>2, <2>6, <1>2, <1>6 DEF ReadyIfNeeded, Needed, Accepts
  <2> QED
      BY <2>1, <2>3, <2>4, <2>5, <2>6 DEF ReadyIfNeeded
<1>8. ASSUME s.does # "ifNeeded" PROVE Takes(db, s)
  <2>1. Prepared(p, s) /\ Plain(s) /\ (Takes(db, s) <=> Accepts(db, s))
      BY <1>8 DEF Takes, GoodStatement
  <2>2. CASE s.does = "create"
      BY <2>1, <2>2, <1>1 DEF Prepared, Accepts
  <2>3. CASE s.does = "renameTable"
    <3>1. TableFrom(s.to) \in Nat
        BY PositionsAre DEF TableFrom
    <3> QED
        BY <3>1, <2>1, <2>3, <1>1 DEF Prepared, Accepts, Clean, NoTableEarly
  <2>4. CASE s.does = "add"
      BY <2>1, <2>4, <1>1, <1>3 DEF Prepared, Accepts
  <2>5. CASE s.does = "remove"
      BY <2>1, <2>5, <1>2 DEF Prepared, Accepts
  <2>6. CASE s.does = "change"
      BY <2>1, <2>6, <1>2, <1>5 DEF Prepared, Accepts, NoText
  <2>7. CASE s.does = "rename"
      BY <2>1, <2>7, <1>2, <1>3 DEF Prepared, Accepts
  <2>8. CASE s.does = "addIndex"
    <3>1. /\ \A c \in s.on : ColumnThere(p, s.table, c) /\ ~MayText(p, s.table, c)
          /\ p <= NamedAt(s.index)
        BY <2>1, <2>8 DEF Prepared
    <3>2. NoText(s.on, {<<c[2], c[3]>> : c \in {d \in db.columns : d[1] = s.table}})
        BY <3>1, <1>6
    <3>3. s.on \subseteq ColumnsOf(db, s.table) /\ s.index \notin IndexesOf(db, s.table)
        BY <3>1, <1>2, <1>4
    <3> QED
        BY <2>1, <2>8, <3>2, <3>3 DEF Accepts
  <2>9. CASE s.does = "query"
      BY <2>1, <2>9, <1>1, <1>2 DEF Prepared, Accepts
  <2> QED
      BY <2>1, <2>2, <2>3, <2>4, <2>5, <2>6, <2>7, <2>8, <2>9 DEF Prepared, Plain
<1> QED
    BY <1>7, <1>8

-----------------------------------------------------------------------------
(* Every statement of the migrations is such a one.                         *)

ColumnFine(p, t, d) ==
    /\ GoneAt(t, d[1]) >= p /\ NotBefore(t, d[1]) <= p
    /\ "value" \in d[2] => MayAsk(t, d[1])
    /\ "text" \in d[2] => MayText(p + 1, t, d[1])
ColumnsFine(p, t, columns) == \A d \in columns : ColumnFine(p, t, d)

LEMMA SetsFine ==
    \A p, t :
       /\ \A a, b : ColumnsFine(p, t, a) /\ ColumnsFine(p, t, b) => ColumnsFine(p, t, a \cup b)
       /\ \A names : (\A c \in names : GoneAt(t, c) >= p /\ NotBefore(t, c) <= p) =>
             /\ ColumnsFine(p, t, May(names))
             /\ (\A c \in names : MayAsk(t, c)) => ColumnsFine(p, t, Must(names))
             /\ (\A c \in names : MayText(p + 1, t, c)) => ColumnsFine(p, t, Text(names))
       /\ \A c, asked : ColumnFine(p, t, <<c, asked>>) => ColumnsFine(p, t, {<<c, asked>>})
BY DEF ColumnsFine, ColumnFine, May, Must, Text

LEMMA MadeUp ==
    ASSUME NEW p, NEW t, NEW columns, ColumnsFine(p, t, columns), p # 4501
    PROVE  /\ \A others : BaseOf(t) \subseteq Names(columns) /\ TableFrom(t) <= p
                             /\ (\A u \in others : TableThere(p, u))
                  => UpFine(p, CreateTableFor(t, columns, others))
           /\ TableThere(p, t) => UpFine(p, IfNeeded(AddColumn(t, columns)))
           /\ TableThere(p, t) /\ (\A c \in Names(columns) : p <= NotBefore(t, c))
                  => UpFine(p, AddColumn(t, columns))
<1>1. \A d \in columns : /\ GoneAt(t, d[1]) >= p /\ NotBefore(t, d[1]) <= p
                         /\ "value" \in d[2] => MayAsk(t, d[1])
                         /\ "text" \in d[2] => MayText(p + 1, t, d[1])
    BY DEF ColumnsFine, ColumnFine
<1>2. \A c \in Names(columns) : GoneAt(t, c) >= p /\ NotBefore(t, c) <= p
    BY <1>1, NamesIs
<1>3. ASSUME NEW others, BaseOf(t) \subseteq Names(columns), TableFrom(t) <= p, \A u \in others : TableThere(p, u)
      PROVE  UpFine(p, CreateTableFor(t, columns, others))
    BY <1>1, <1>2, <1>3 DEF UpFine, Orderly, Tidy, Prepared, Inner, CreateTableFor
<1>4. TableThere(p, t) => UpFine(p, IfNeeded(AddColumn(t, columns)))
    BY <1>1, <1>2 DEF UpFine, Orderly, Tidy, ReadyIfNeeded, Inner, AddColumn, IfNeeded
<1>5. ASSUME TableThere(p, t), \A c \in Names(columns) : p <= NotBefore(t, c)
      PROVE  UpFine(p, AddColumn(t, columns))
    BY <1>1, <1>2, <1>5 DEF UpFine, Orderly, Tidy, Prepared, Inner, AddColumn
<1> QED
    BY <1>3, <1>4, <1>5

LEMMA LeftUp ==
    ASSUME NEW p, NEW t, NEW c, p # 4501, c \notin BaseOf(t), AddedAt(t, c) >= p,
           FromAt(t, c) >= p \/ GoneAt(t, c) <= p
    PROVE  /\ UpFine(p, IfNeeded(RemoveColumn(t, c)))
           /\ ColumnThere(p, t, c) => UpFine(p, RemoveColumn(t, c))
           /\ \A to : /\ GoneAt(t, to) >= p /\ MayAsk(t, to) /\ NotBefore(t, to) = p
                      /\ ~MayText(p, t, c)
                 => /\ UpFine(p, IfNeeded(RenameColumn(t, c, to)))
                    /\ ColumnThere(p, t, c) => UpFine(p, RenameColumn(t, c, to))
<1>1. UpFine(p, IfNeeded(RemoveColumn(t, c)))
    BY DEF UpFine, Orderly, Tidy, ReadyIfNeeded, Inner, RemoveColumn, IfNeeded
<1>2. ColumnThere(p, t, c) => UpFine(p, RemoveColumn(t, c))
    BY DEF UpFine, Orderly, Tidy, Prepared, Inner, RemoveColumn
<1>3. ASSUME NEW to, GoneAt(t, to) >= p, MayAsk(t, to), NotBefore(t, to) = p, ~MayText(p, t, c)
      PROVE  /\ UpFine(p, IfNeeded(RenameColumn(t, c, to)))
             /\ ColumnThere(p, t, c) => UpFine(p, RenameColumn(t, c, to))
  <2>1. \A x, y, v : v = NotBefore(x, y) => v \in Nat
      BY DEF NotBefore
  <2>2. p <= NotBefore(t, to) /\ NotBefore(t, to) <= p
      BY <1>3, <2>1
  <2>3. UpFine(p, IfNeeded(RenameColumn(t, c, to)))
      BY <1>3, <2>2 DEF UpFine, Orderly, Tidy, ReadyIfNeeded, Inner, RenameColumn, IfNeeded
  <2>4. ColumnThere(p, t, c) => UpFine(p, RenameColumn(t, c, to))
      BY <1>3, <2>2 DEF UpFine, Orderly, Tidy, Prepared, Inner, RenameColumn
  <2> QED
      BY <2>3, <2>4
<1> QED
    BY <1>1, <1>2, <1>3

LEMMA ChangedUp ==
    \A p, t, columns :
       /\ \A c \in Names(columns) : ColumnThere(p, t, c)
       /\ \A d \in columns : /\ "value" \in d[2] => MayAsk(t, d[1])
                             /\ "text" \in d[2] => MayText(p + 1, t, d[1]) /\ p <= 2701
       /\ p = 4501 => t = "paranet_synced_asset" /\ columns = May({"data_source"})
       => UpFine(p, ChangeColumn(t, columns))
<1> SUFFICES ASSUME NEW p, NEW t, NEW columns,
                    \A c \in Names(columns) : ColumnThere(p, t, c),
                    \A d \in columns : /\ "value" \in d[2] => MayAsk(t, d[1])
                                       /\ "text" \in d[2] => MayText(p + 1, t, d[1]) /\ p <= 2701,
                    p = 4501 => t = "paranet_synced_asset" /\ columns = May({"data_source"})
             PROVE  UpFine(p, ChangeColumn(t, columns))
    OBVIOUS
<1> DEFINE s == ChangeColumn(t, columns)
<1>1. s.does = "change" /\ s.table = t /\ s.columns = columns /\ Inner(s) = s
    BY DEF ChangeColumn, Inner
<1>2. p = 4501 => s = ChangeColumn("paranet_synced_asset", May({"data_source"}))
    OBVIOUS
<1> HIDE DEF s
<1>3. Orderly(p, s) /\ Tidy(p, s) /\ Prepared(p, s)
    BY <1>1, <1>2 DEF Orderly, Tidy, Prepared
<1> QED
    BY <1>1, <1>3 DEF UpFine, s

LEMMA AskedUp ==
    \A p, t, on : p # 4501 /\ TableThere(p, t) /\ (\A c \in on : ColumnThere(p, t, c)) => UpFine(p, Query(t, on))
BY DEF UpFine, Orderly, Tidy, Prepared, Inner, Query

LEMMA IndexedUp ==
    \A p, t, on, x :
       p # 4501 /\ (\A c \in on : ColumnThere(p, t, c) /\ ~MayText(p, t, c)) =>
          /\ NamedAt(x) = p /\ (\A i \in 1..27 : NewIndexes[i].index # x) => UpFine(p, AddIndex(t, on, x))
          /\ \A i \in 1..28 : /\ NewIndexes[i] = AddIndex(t, on, x) /\ p = 4600 + i
                              /\ (\A k \in 1..27 : NewIndexes[k].index = x => k = i)
                              /\ NamedAt(x) <= p
                => UpFine(p, IfNeeded(AddIndex(t, on, x)))
<1> SUFFICES ASSUME NEW p, NEW t, NEW on, NEW x, p # 4501,
                    \A c \in on : ColumnThere(p, t, c) /\ ~MayText(p, t, c)
             PROVE  /\ NamedAt(x) = p /\ (\A i \in 1..27 : NewIndexes[i].index # x)
                          => UpFine(p, AddIndex(t, on, x))
                    /\ \A i \in 1..28 :
                          /\ NewIndexes[i] = AddIndex(t, on, x) /\ p = 4600 + i
                          /\ (\A k \in 1..27 : NewIndexes[k].index = x => k = i)
                          /\ NamedAt(x) <= p
                          => UpFine(p, IfNeeded(AddIndex(t, on, x)))
    OBVIOUS
<1>1. NamedAt(x) \in Nat
    BY NamedFrom
<1>2. ASSUME NamedAt(x) = p, \A i \in 1..27 : NewIndexes[i].index # x PROVE UpFine(p, AddIndex(t, on, x))
    BY <1>1, <1>2 DEF UpFine, Orderly, Tidy, Prepared, Inner, AddIndex
<1>3. ASSUME NEW i \in 1..28, NewIndexes[i] = AddIndex(t, on, x), p = 4600 + i,
             \A k \in 1..27 : NewIndexes[k].index = x => k = i, NamedAt(x) <= p
      PROVE  UpFine(p, IfNeeded(AddIndex(t, on, x)))
  <2> DEFINE s == AddIndex(t, on, x)
  <2>1. /\ s.does = "addIndex" /\ s.table = t /\ s.on = on /\ s.index = x
        /\ Inner(IfNeeded(s)) = s /\ IfNeeded(s).does = "ifNeeded" /\ IfNeeded(s).what = s
      BY DEF AddIndex, Inner, IfNeeded
  <2>2. NewIndexes[i].on = on
      BY <2>1, <1>3
  <2> HIDE DEF s
  <2>3. Orderly(p, s) /\ Tidy(p, s) /\ ReadyIfNeeded(p, s)
      BY <2>1, <2>2, <1>3 DEF Orderly, Tidy, ReadyIfNeeded
  <2> QED
      BY <2>1, <2>3 DEF UpFine, s
<1> QED
    BY <1>2, <1>3

LEMMA TableUp ==
    \A p, t, u : /\ p # 4501 /\ MadeAt(t) >= p /\ <<t, u>> \in Asking /\ TableFrom(u) = p
                 /\ u \in {"ask", "ask_response"} /\ TableUntil(t) <= p /\ (\A c : FromAt(t, c) = Never)
                 /\ t # "paranet_synced_asset" /\ TableThere(p, t)
        => UpFine(p, RenameTable(t, u))
<1> SUFFICES ASSUME NEW p, NEW t, NEW u, p # 4501, MadeAt(t) >= p, <<t, u>> \in Asking, TableFrom(u) = p,
                    u \in {"ask", "ask_response"}, TableUntil(t) <= p, \A c : FromAt(t, c) = Never,
                    t # "paranet_synced_asset", TableThere(p, t)
             PROVE  UpFine(p, RenameTable(t, u))
    OBVIOUS
<1>1. TableFrom(u) \in Nat
    BY PositionsAre DEF TableFrom
<1> QED
    BY <1>1 DEF UpFine, Orderly, Tidy, Prepared, Inner, RenameTable

DownFine(p, s) == Orderly(p, Inner(s))

LEMMA Downs ==
    /\ \A p, t : MadeAt(t) >= p => DownFine(p, DropTable(t))
    /\ \A p, t, c : c \notin BaseOf(t) /\ AddedAt(t, c) >= p => DownFine(p, RemoveColumn(t, c))
    /\ \A p, t, c, to :
          c \notin BaseOf(t) /\ AddedAt(t, c) >= p /\ GoneAt(t, to) >= p /\ MayAsk(t, to)
             => DownFine(p, RenameColumn(t, c, to))
    /\ \A p, t, u : MadeAt(t) >= p /\ <<t, u>> \in Asking => DownFine(p, RenameTable(t, u))
    /\ \A p, t, on : DownFine(p, Query(t, on))
    /\ \A p, t, x : (\A i \in 1..27 : NewIndexes[i].index = x => p <= 4600 + i) =>
          DownFine(p, RemoveIndex(t, x)) /\ DownFine(p, IfNeeded(RemoveIndex(t, x)))
<1>1. \A p, t : MadeAt(t) >= p => DownFine(p, DropTable(t))
    BY DEF DownFine, Orderly, Inner, DropTable
<1>2. \A p, t, c : c \notin BaseOf(t) /\ AddedAt(t, c) >= p => DownFine(p, RemoveColumn(t, c))
    BY DEF DownFine, Orderly, Inner, RemoveColumn
<1>3. \A p, t, c, to :
          c \notin BaseOf(t) /\ AddedAt(t, c) >= p /\ GoneAt(t, to) >= p /\ MayAsk(t, to)
             => DownFine(p, RenameColumn(t, c, to))
    BY DEF DownFine, Orderly, Inner, RenameColumn
<1>4. \A p, t, u : MadeAt(t) >= p /\ <<t, u>> \in Asking => DownFine(p, RenameTable(t, u))
    BY DEF DownFine, Orderly, Inner, RenameTable
<1>5. \A p, t, on : DownFine(p, Query(t, on))
    BY DEF DownFine, Orderly, Inner, Query
<1>6. \A p, t, x : (\A i \in 1..27 : NewIndexes[i].index = x => p <= 4600 + i) =>
          DownFine(p, RemoveIndex(t, x)) /\ DownFine(p, IfNeeded(RemoveIndex(t, x)))
    BY DEF DownFine, Orderly, Inner, RemoveIndex, IfNeeded
<1> QED
    BY <1>1, <1>2, <1>3, <1>4, <1>5, <1>6

LEMMA DownColumns ==
    ASSUME NEW p, NEW t, NEW columns,
           \A d \in columns : /\ GoneAt(t, d[1]) >= p
                              /\ "value" \in d[2] => MayAsk(t, d[1])
    PROVE  /\ DownFine(p, AddColumn(t, columns)) /\ DownFine(p, IfNeeded(AddColumn(t, columns)))
           /\ DownFine(p, ChangeColumn(t, columns))
<1>1. \A c \in Names(columns) : GoneAt(t, c) >= p
    BY NamesIs
<1> QED
    BY <1>1 DEF DownFine, Orderly, Inner, AddColumn, ChangeColumn, IfNeeded

AllUp(p, list) == \A n \in 1..Len(list) : UpFine(p + n, list[n])
AllDown(p, list) == \A n \in 1..Len(list) : DownFine(p, list[n])

LEMMA UpLists ==
    /\ \A p, a : UpFine(p + 1, a) => AllUp(p, <<a>>)
    /\ \A p, a, b : UpFine(p + 1, a) /\ UpFine(p + 2, b) => AllUp(p, <<a, b>>)
    /\ \A p, a, b, c : UpFine(p + 1, a) /\ UpFine(p + 2, b) /\ UpFine(p + 3, c) => AllUp(p, <<a, b, c>>)
    /\ \A p, a, b, c, d :
          UpFine(p + 1, a) /\ UpFine(p + 2, b) /\ UpFine(p + 3, c) /\ UpFine(p + 4, d)
             => AllUp(p, <<a, b, c, d>>)
    /\ \A p, a, b, c, d, e :
          UpFine(p + 1, a) /\ UpFine(p + 2, b) /\ UpFine(p + 3, c) /\ UpFine(p + 4, d) /\ UpFine(p + 5, e)
             => AllUp(p, <<a, b, c, d, e>>)
    /\ \A p, a, b, c, d, e, f :
          UpFine(p + 1, a) /\ UpFine(p + 2, b) /\ UpFine(p + 3, c) /\ UpFine(p + 4, d) /\ UpFine(p + 5, e)
          /\ UpFine(p + 6, f) => AllUp(p, <<a, b, c, d, e, f>>)
BY DEF AllUp

LEMMA DownLists ==
    /\ \A p : AllDown(p, << >>)
    /\ \A p, a : DownFine(p, a) => AllDown(p, <<a>>)
    /\ \A p, a, b : DownFine(p, a) /\ DownFine(p, b) => AllDown(p, <<a, b>>)
    /\ \A p, a, b, c : DownFine(p, a) /\ DownFine(p, b) /\ DownFine(p, c) => AllDown(p, <<a, b, c>>)
    /\ \A p, a, b, c, d :
          DownFine(p, a) /\ DownFine(p, b) /\ DownFine(p, c) /\ DownFine(p, d) => AllDown(p, <<a, b, c, d>>)
    /\ \A p, a, b, c, d, e, f :
          DownFine(p, a) /\ DownFine(p, b) /\ DownFine(p, c) /\ DownFine(p, d) /\ DownFine(p, e)
          /\ DownFine(p, f) => AllDown(p, <<a, b, c, d, e, f>>)
BY DEF AllDown

MigrationFine(k, m) ==
    /\ Len(m.up) \in Nat /\ Len(m.up) >= 1 /\ Len(m.up) <= 98
    /\ AllUp(100 * k, m.up) /\ AllDown(100 * k + 1, m.down)

LEMMA CreatesFine ==
    ASSUME NEW k \in 1..60, NEW t, NEW columns, ColumnsFine(100 * k + 1, t, columns), k # 45,
           BaseOf(t) \subseteq Names(columns), TableFrom(t) <= 100 * k + 1, MadeAt(t) >= 100 * k + 1
    PROVE  MigrationFine(k, Creates(t, columns))
<1>1. UpFine(100 * k + 1, CreateTable(t, columns))
    BY MadeUp DEF CreateTable
<1>2. DownFine(100 * k + 1, DropTable(t))
    BY Downs
<1> QED
    BY <1>1, <1>2, UpLists, DownLists DEF MigrationFine, Creates, Migration

LEMMA NotBeforeIs ==
    \A t, c, v : v = NotBefore(t, c) =>
       \/ t = "publish" /\ c = "agreementId" /\ v = 1701
       \/ t = "publish" /\ c = "agreementStatus" /\ v = 1702
       \/ t = "event" /\ c = "blockchain_id" /\ v = 2801
       \/ t = "service_agreement" /\ c = "data_source" /\ v = 3401
       \/ t = "missed_paranet_asset" /\ c = "error_message" /\ v = 4101
       \/ t = "paranet_synced_asset" /\ c = "data_source" /\ v = 4401
       \/ t = "publish_response" /\ c = "dataset_root" /\ v = 4701
       \/ t = "get_response" /\ c = "dataset_root" /\ v = 4702
       \/ t = "commands" /\ c = "priority" /\ v = 4801
       \/ t = "commands" /\ c = "is_blocking" /\ v = 4901
       \/ t = "blockchain_event" /\ c = "blockchain" /\ v = 5101
       \/ t = "blockchain_event" /\ c = "block_number" /\ v = 5103
       \/ t = "blockchain_event" /\ c = "transaction_index" /\ v = 5104
       \/ t = "blockchain_event" /\ c = "log_index" /\ v = 5105
       \/ t = "blockchain_event" /\ c = "contract_address" /\ v = 5106
       \/ t = "blockchain" /\ c = "blockchain" /\ v = 5202
       \/ t = "operation_ids" /\ c = "min_acks_reached" /\ v = 5901
       \/ v = 0
BY DEF NotBefore

LEMMA GroundColumns ==
    /\ NotBefore("publish", "agreementId") = 1701
    /\ NotBefore("publish", "agreementStatus") = 1702
    /\ NotBefore("event", "blockchain_id") = 2801
    /\ NotBefore("service_agreement", "data_source") = 3401
    /\ NotBefore("missed_paranet_asset", "error_message") = 4101
    /\ NotBefore("paranet_synced_asset", "data_source") = 4401
    /\ NotBefore("publish_response", "dataset_root") = 4701
    /\ NotBefore("get_response", "dataset_root") = 4702
    /\ NotBefore("commands", "priority") = 4801 /\ NotBefore("commands", "is_blocking") = 4901
    /\ NotBefore("blockchain_event", "blockchain") = 5101
    /\ NotBefore("blockchain_event", "block_number") = 5103
    /\ NotBefore("blockchain_event", "transaction_index") = 5104
    /\ NotBefore("blockchain_event", "log_index") = 5105
    /\ NotBefore("blockchain_event", "contract_address") = 5106
    /\ NotBefore("blockchain", "blockchain") = 5202
    /\ NotBefore("operation_ids", "min_acks_reached") = 5901
    /\ NotBefore("publish_response", "keyword") = 0 /\ NotBefore("get_response", "keyword") = 0
    /\ NotBefore("blockchain_event", "blockchain_id") = 0
    /\ NotBefore("blockchain_event", "block") = 0 /\ NotBefore("blockchain", "blockchain_id") = 0
    /\ NotBefore("blockchain", "contract") = 0
    /\ NotBefore("missed_paranet_asset", "knowledge_asset_id") = 0
    /\ GoneAt("publish_response", "keyword") = 4701 /\ GoneAt("get_response", "keyword") = 4702
    /\ GoneAt("publish_response", "dataset_root") = 5001
    /\ GoneAt("get_response", "dataset_root") = 5002
    /\ GoneAt("blockchain_event", "blockchain_id") = 5101
    /\ GoneAt("blockchain_event", "block") = 5103 /\ GoneAt("blockchain", "blockchain_id") = 5202
    /\ GoneAt("blockchain", "contract") = 5205
    /\ GoneAt("missed_paranet_asset", "knowledge_asset_id") = 4201
    /\ AddedAt("event", "blockchain_id") = 2801
    /\ AddedAt("missed_paranet_asset", "error_message") = 4101
    /\ AddedAt("paranet_synced_asset", "data_source") = 4401
    /\ AddedAt("commands", "priority") = 4801 /\ AddedAt("commands", "is_blocking") = 4901
    /\ AddedAt("blockchain_event", "blockchain") = 5101
    /\ AddedAt("blockchain_event", "block_number") = 5103
    /\ AddedAt("blockchain_event", "transaction_index") = 5104
    /\ AddedAt("blockchain_event", "log_index") = 5105
    /\ AddedAt("blockchain_event", "contract_address") = 5106
    /\ AddedAt("blockchain", "blockchain") = 5203
    /\ AddedAt("operation_ids", "min_acks_reached") = 5901
    /\ FromAt("publish_response", "keyword") = 401 /\ FromAt("get_response", "keyword") = 601
    /\ FromAt("blockchain_event", "blockchain_id") = 1401
    /\ FromAt("blockchain_event", "block") = 1401 /\ FromAt("blockchain", "blockchain_id") = 1601
    /\ FromAt("blockchain", "contract") = 1601
    /\ FromAt("missed_paranet_asset", "knowledge_asset_id") = 3601
    /\ FromAt("publish_response", "dataset_root") = 4701
    /\ FromAt("get_response", "dataset_root") = 4702 /\ FromAt("blockchain", "blockchain") = 5202
    /\ Never = 100000
<1>1. /\ NotBefore("publish", "agreementId") = 1701
      /\ NotBefore("publish", "agreementStatus") = 1702
      /\ NotBefore("event", "blockchain_id") = 2801
      /\ NotBefore("service_agreement", "data_source") = 3401
      /\ NotBefore("missed_paranet_asset", "error_message") = 4101
      /\ NotBefore("paranet_synced_asset", "data_source") = 4401
      /\ NotBefore("publish_response", "dataset_root") = 4701
      /\ NotBefore("get_response", "dataset_root") = 4702
      /\ NotBefore("commands", "priority") = 4801 /\ NotBefore("commands", "is_blocking") = 4901
      /\ NotBefore("blockchain_event", "blockchain") = 5101
      /\ NotBefore("blockchain_event", "block_number") = 5103
      /\ NotBefore("blockchain_event", "transaction_index") = 5104
      /\ NotBefore("blockchain_event", "log_index") = 5105
      /\ NotBefore("blockchain_event", "contract_address") = 5106
      /\ NotBefore("blockchain", "blockchain") = 5202
      /\ NotBefore("operation_ids", "min_acks_reached") = 5901
      /\ NotBefore("publish_response", "keyword") = 0 /\ NotBefore("get_response", "keyword") = 0
      /\ NotBefore("blockchain_event", "blockchain_id") = 0
      /\ NotBefore("blockchain_event", "block") = 0
      /\ NotBefore("blockchain", "blockchain_id") = 0 /\ NotBefore("blockchain", "contract") = 0
      /\ NotBefore("missed_paranet_asset", "knowledge_asset_id") = 0
    BY DEF NotBefore
<1>2. /\ GoneAt("publish_response", "keyword") = 4701 /\ GoneAt("get_response", "keyword") = 4702
      /\ GoneAt("publish_response", "dataset_root") = 5001
      /\ GoneAt("get_response", "dataset_root") = 5002
      /\ GoneAt("blockchain_event", "blockchain_id") = 5101
      /\ GoneAt("blockchain_event", "block") = 5103
      /\ GoneAt("blockchain", "blockchain_id") = 5202 /\ GoneAt("blockchain", "contract") = 5205
      /\ GoneAt("missed_paranet_asset", "knowledge_asset_id") = 4201
    BY DEF GoneAt
<1>3. /\ AddedAt("event", "blockchain_id") = 2801
      /\ AddedAt("missed_paranet_asset", "error_message") = 4101
      /\ AddedAt("paranet_synced_asset", "data_source") = 4401
      /\ AddedAt("commands", "priority") = 4801 /\ AddedAt("commands", "is_blocking") = 4901
      /\ AddedAt("blockchain_event", "blockchain") = 5101
      /\ AddedAt("blockchain_event", "block_number") = 5103
      /\ AddedAt("blockchain_event", "transaction_index") = 5104
      /\ AddedAt("blockchain_event", "log_index") = 5105
      /\ AddedAt("blockchain_event", "contract_address") = 5106
      /\ AddedAt("blockchain", "blockchain") = 5203
      /\ AddedAt("operation_ids", "min_acks_reached") = 5901
    BY DEF AddedAt
<1>4. /\ FromAt("publish_response", "keyword") = 401 /\ FromAt("get_response", "keyword") = 601
      /\ FromAt("blockchain_event", "blockchain_id") = 1401
      /\ FromAt("blockchain_event", "block") = 1401
      /\ FromAt("blockchain", "blockchain_id") = 1601 /\ FromAt("blockchain", "contract") = 1601
      /\ FromAt("missed_paranet_asset", "knowledge_asset_id") = 3601
      /\ FromAt("publish_response", "dataset_root") = 4701
      /\ FromAt("get_response", "dataset_root") = 4702
      /\ FromAt("blockchain", "blockchain") = 5202
    BY DEF FromAt
<1> QED
    BY <1>1, <1>2, <1>3, <1>4 DEF Never

LEMMA BaseQuiet ==
    \A t, c : c \in BaseOf(t) => GoneAt(t, c) = Never /\ NotBefore(t, c) = 0
                                 /\ (c # "role_id" => MayAsk(t, c))
<1> SUFFICES ASSUME NEW t, NEW c \in BaseOf(t) PROVE GoneAt(t, c) = Never /\ NotBefore(t, c) = 0
    BY DEF MayAsk
<1>1. GoneAt(t, c) = Never
    BY GoneAtIs, BaseOfIs
<1>2. NotBefore(t, c) = 0
    BY NotBeforeIs, BaseOfIs
<1> QED
    BY <1>1, <1>2

LEMMA TableFromIs ==
    /\ TableFrom("finality") = 5301 /\ TableFrom("finality_response") = 5401
    /\ \A t : t \notin {"finality", "finality_response"} => TableFrom(t) = MadeAt(t) /\ TableUntil(t) = 0
    /\ TableUntil("finality") = 5501 /\ TableUntil("finality_response") = 5502
BY DEF TableFrom, TableUntil

(* Columns the table keeps, and columns of tables that nothing is kept of.  *)
Still == {"role", "ability", "user", "token", "role_ability", "shard", "paranet", "publish_paranet",
          "finality_status"}
FineNames(p, t, names) == \A c \in names : GoneAt(t, c) >= p /\ NotBefore(t, c) <= p

LEMMA StillFine == \A t, c : t \in Still => GoneAt(t, c) = Never /\ NotBefore(t, c) = 0
BY GoneAtIs, NotBeforeIs DEF Still

LEMMA NamesFine ==
    ASSUME NEW p \in Nat, p <= Never, NEW t
    PROVE  /\ \A names : names \subseteq BaseOf(t) =>
                 /\ ColumnsFine(p, t, May(names)) /\ ("role_id" \notin names => ColumnsFine(p, t, Must(names)))
                 /\ names \subseteq {"message", "data", "value1", "value2", "value3", "error_message"}
                       => ColumnsFine(p, t, Text(names))
           /\ \A names : t \in Still => ColumnsFine(p, t, May(names))
           /\ \A names : FineNames(p, t, names) =>
                 /\ ColumnsFine(p, t, May(names))
                 /\ (\A c \in names : MayAsk(t, c)) => ColumnsFine(p, t, Must(names))
                 /\ (\A c \in names : MayText(p + 1, t, c)) => ColumnsFine(p, t, Text(names))
<1>1. \A names : FineNames(p, t, names) =>
                 /\ ColumnsFine(p, t, May(names))
                 /\ (\A c \in names : MayAsk(t, c)) => ColumnsFine(p, t, Must(names))
                 /\ (\A c \in names : MayText(p + 1, t, c)) => ColumnsFine(p, t, Text(names))
    BY SetsFine DEF FineNames
<1>2. \A names : names \subseteq BaseOf(t) => FineNames(p, t, names) /\ \A c \in names : c # "role_id" => MayAsk(t, c)
    BY BaseQuiet, PositionsAre DEF FineNames
<1>3. \A names : t \in Still => FineNames(p, t, names)
    BY StillFine, PositionsAre DEF FineNames
<1>4. \A names : names \subseteq {"message", "data", "value1", "value2", "value3", "error_message"}
         => \A c \in names : MayText(p + 1, t, c)
    BY DEF MayText
<1> QED
    BY <1>1, <1>2, <1>3, <1>4

LEMMA JoinFine ==
    /\ \A p, t, a, b : ColumnsFine(p, t, a) /\ ColumnsFine(p, t, b) => ColumnsFine(p, t, a \cup b)
    /\ \A p, t, a, b, c : ColumnsFine(p, t, a) /\ ColumnsFine(p, t, b) /\ ColumnsFine(p, t, c)
          => ColumnsFine(p, t, a \cup b \cup c)
    /\ \A p, t, a, b, c, d :
          ColumnsFine(p, t, a) /\ ColumnsFine(p, t, b) /\ ColumnsFine(p, t, c) /\ ColumnsFine(p, t, d)
             => ColumnsFine(p, t, a \cup b \cup c \cup d)
BY DEF ColumnsFine

(* Of a table that nothing is kept of any column may come.                  *)
LEMMA StillNames == \A p \in Nat : p <= Never => \A t \in Still : \A names : ColumnsFine(p, t, May(names))
BY NamesFine

(* Why a column that is not kept may come.                                  *)
LEMMA OneFine ==
    \A p, t, c :
       GoneAt(t, c) >= p /\ NotBefore(t, c) <= p =>
          /\ ColumnsFine(p, t, May({c}))
          /\ MayAsk(t, c) => ColumnsFine(p, t, Must({c}))
          /\ MayText(p + 1, t, c) => ColumnsFine(p, t, Text({c}))
BY SetsFine

LEMMA FineMust ==
    \A p, t, names : FineNames(p, t, names) =>
       /\ ColumnsFine(p, t, May(names))
       /\ (\A c \in names : MayAsk(t, c)) => ColumnsFine(p, t, Must(names))
BY SetsFine DEF FineNames

OperationColumns == {"id", "operation_id", "status", "created_at", "updated_at"}

LEMMA OperationFine ==
    ASSUME NEW p \in Nat, p <= Never, NEW t, OperationColumns \subseteq BaseOf(t)
    PROVE  /\ ColumnsFine(p, t, OperationTable) /\ OperationColumns \subseteq Names(OperationTable)
           /\ "message" \in BaseOf(t) => ColumnsFine(p, t, ResponseTable)
           /\ OperationColumns \cup {"message"} \subseteq Names(ResponseTable)
           /\ "message" \in BaseOf(t) /\ GoneAt(t, "keyword") >= p /\ NotBefore(t, "keyword") <= p
              /\ MayAsk(t, "keyword") => ColumnsFine(p, t, KeywordResponseTable)
           /\ OperationColumns \cup {"message"} \subseteq Names(KeywordResponseTable)
<1>1. ColumnsFine(p, t, OperationTable)
  <2>1. /\ ColumnsFine(p, t, May({"id"})) /\ ColumnsFine(p, t, Must({"operation_id", "status"}))
        /\ ColumnsFine(p, t, Times)
      BY NamesFine DEF OperationColumns, Times
  <2> QED
      BY <2>1, SetsFine DEF OperationTable
<1>2. "message" \in BaseOf(t) => ColumnsFine(p, t, ResponseTable)
  <2>1. "message" \in BaseOf(t) => ColumnsFine(p, t, Text({"message"}))
      BY NamesFine
  <2> QED
      BY <2>1, <1>1, SetsFine DEF ResponseTable
<1>3. "message" \in BaseOf(t) /\ GoneAt(t, "keyword") >= p /\ NotBefore(t, "keyword") <= p
              /\ MayAsk(t, "keyword") => ColumnsFine(p, t, KeywordResponseTable)
  <2>1. GoneAt(t, "keyword") >= p /\ NotBefore(t, "keyword") <= p /\ MayAsk(t, "keyword")
          => ColumnsFine(p, t, Must({"keyword"}))
      BY NamesFine DEF FineNames
  <2> QED
      BY <2>1, <1>2, SetsFine DEF KeywordResponseTable
<1>4. OperationColumns \subseteq Names(OperationTable)
    BY NamesAre DEF OperationColumns, OperationTable, Times
<1>5. OperationColumns \cup {"message"} \subseteq Names(ResponseTable)
    BY <1>4, NamesAre DEF ResponseTable
<1>6. OperationColumns \cup {"message"} \subseteq Names(KeywordResponseTable)
    BY <1>5, NamesAre DEF KeywordResponseTable
<1> QED
    BY <1>1, <1>2, <1>3, <1>4, <1>5, <1>6

LEMMA OperationsFine ==
    /\ MigrationFine(3, create_publish) /\ MigrationFine(5, create_get) /\ MigrationFine(22, create_update)
    /\ MigrationFine(37, create_publish_paranet) /\ MigrationFine(53, create_finality)
    /\ MigrationFine(58, create_finality_again)
<1>1. \A k \in 1..60 : \A t \in {"publish", "get", "update", "publish_paranet", "finality"} :
          k # 45 /\ TableFrom(t) <= 100 * k + 1 /\ MadeAt(t) >= 100 * k + 1
              => MigrationFine(k, Creates(t, OperationTable))
  <2> SUFFICES ASSUME NEW k \in 1..60, NEW t \in {"publish", "get", "update", "publish_paranet", "finality"},
                      k # 45, TableFrom(t) <= 100 * k + 1, MadeAt(t) >= 100 * k + 1
               PROVE  MigrationFine(k, Creates(t, OperationTable))
      OBVIOUS
  <2>1. BaseOf(t) = OperationColumns /\ 100 * k + 1 \in Nat /\ 100 * k + 1 <= Never
      BY BaseOfIs, GroundColumns DEF OperationColumns
  <2>2. ColumnsFine(100 * k + 1, t, OperationTable) /\ BaseOf(t) \subseteq Names(OperationTable)
      BY <2>1, OperationFine
  <2> QED
      BY <2>2, CreatesFine
<1> QED
    BY <1>1, MadeAtIs, TableFromIs
    DEF create_publish, create_get, create_update, create_publish_paranet, create_finality, create_finality_again

LEMMA ResponsesFine ==
    /\ MigrationFine(4, create_publish_response) /\ MigrationFine(6, create_get_response)
    /\ MigrationFine(24, create_update_response) /\ MigrationFine(39, create_publish_paranet_response)
    /\ MigrationFine(54, create_finality_response) /\ MigrationFine(56, create_finality_response_again)
<1> DEFINE Base == OperationColumns \cup {"message"}
<1>1. ASSUME NEW k \in 1..60, k # 45, NEW t, BaseOf(t) = Base, TableFrom(t) <= 100 * k + 1,
             MadeAt(t) >= 100 * k + 1
      PROVE  /\ MigrationFine(k, Creates(t, ResponseTable))
             /\ GoneAt(t, "keyword") >= 100 * k + 1 /\ NotBefore(t, "keyword") <= 100 * k + 1
                   /\ MayAsk(t, "keyword") => MigrationFine(k, Creates(t, KeywordResponseTable))
  <2>1. 100 * k + 1 \in Nat /\ 100 * k + 1 <= Never
      BY GroundColumns
  <2>2. /\ ColumnsFine(100 * k + 1, t, ResponseTable) /\ BaseOf(t) \subseteq Names(ResponseTable)
        /\ BaseOf(t) \subseteq Names(KeywordResponseTable)
        /\ GoneAt(t, "keyword") >= 100 * k + 1 /\ NotBefore(t, "keyword") <= 100 * k + 1
                   /\ MayAsk(t, "keyword") => ColumnsFine(100 * k + 1, t, KeywordResponseTable)
      BY <1>1, <2>1, OperationFine
  <2> QED
      BY <1>1, <2>2, CreatesFine
<1>2. /\ BaseOf("publish_response") = Base /\ BaseOf("get_response") = Base
      /\ BaseOf("update_response") = Base /\ BaseOf("publish_paranet_response") = Base
      /\ BaseOf("finality_response") = Base
    BY BaseOfIs DEF OperationColumns
<1>3. \A t : NotBefore(t, "keyword") = 0
    BY NotBeforeIs
<1>4. /\ MayAsk("publish_response", "keyword") /\ MayAsk("get_response", "keyword")
      /\ MayAsk("update_response", "keyword") /\ MayAsk("publish_paranet_response", "keyword")
    BY GroundColumns DEF MayAsk, WrittenTables
<1>5. GoneAt("update_response", "keyword") = 100000 /\ GoneAt("publish_paranet_response", "keyword") = 100000
    BY GoneAtIs, GroundColumns
<1> HIDE DEF Base
<1>6. MigrationFine(4, create_publish_response) /\ MigrationFine(6, create_get_response)
    BY <1>1, <1>2, <1>3, <1>4, MadeAtIs, TableFromIs, GroundColumns
    DEF create_publish_response, create_get_response
<1>7. MigrationFine(24, create_update_response) /\ MigrationFine(39, create_publish_paranet_response)
    BY <1>1, <1>2, <1>3, <1>4, <1>5, MadeAtIs, TableFromIs
    DEF create_update_response, create_publish_paranet_response
<1>8. MigrationFine(54, create_finality_response) /\ MigrationFine(56, create_finality_response_again)
    BY <1>1, <1>2, MadeAtIs, TableFromIs DEF create_finality_response, create_finality_response_again
<1> QED
    BY <1>6, <1>7, <1>8

LEMMA CommandsFine == MigrationFine(1, create_commands)
<1> DEFINE t == "commands"
           columns == Must({"id", "name", "data", "ready_at", "delay", "status", "transactional"})
                      \cup May({"sequence", "started_at", "deadline_at", "period", "parent_id",
                      "retries"}) \cup Text({"message"}) \cup Times
<1>1. ColumnsFine(101, t, Must({"id", "name", "data", "ready_at", "delay", "status", "transactional"}))
  <2>1. /\ {"id", "name", "data", "ready_at", "delay", "status", "transactional"} \subseteq BaseOf(t)
        /\ "role_id" \notin {"id", "name", "data", "ready_at", "delay", "status", "transactional"}
      BY BaseOfIs
  <2>2. 101 \in Nat /\ 101 <= Never
      BY DEF Never
  <2> QED
      BY <2>1, <2>2, NamesFine
<1>2. ColumnsFine(101, t, May({"sequence", "started_at", "deadline_at", "period", "parent_id", "retries"}))
  <2>1. {"sequence", "started_at", "deadline_at", "period", "parent_id", "retries"} \subseteq BaseOf(t)
      BY BaseOfIs
  <2>2. 101 \in Nat /\ 101 <= Never
      BY DEF Never
  <2> QED
      BY <2>1, <2>2, NamesFine
<1>3. ColumnsFine(101, t, Text({"message"}))
  <2>1. /\ {"message"} \subseteq BaseOf(t)
        /\ {"message"} \subseteq {"message", "data", "value1", "value2", "value3", "error_message"}
      BY BaseOfIs
  <2>2. 101 \in Nat /\ 101 <= Never
      BY DEF Never
  <2> QED
      BY <2>1, <2>2, NamesFine
<1>4. ColumnsFine(101, t, Times)
  <2>1. {"created_at", "updated_at"} \subseteq BaseOf(t)
      BY BaseOfIs
  <2>2. 101 \in Nat /\ 101 <= Never
      BY DEF Never
  <2> QED
      BY <2>1, <2>2, NamesFine DEF Times
<1>5. ColumnsFine(101, t, columns)
    BY <1>1, <1>2, <1>3, <1>4, JoinFine
<1>6. BaseOf(t) \subseteq Names(columns)
    BY BaseOfIs, NamesAre DEF Times
<1> HIDE DEF columns
<1>7. MigrationFine(1, Creates(t, columns))
    BY <1>5, <1>6, CreatesFine, MadeAtIs, TableFromIs
<1> QED
    BY <1>7 DEF create_commands, columns

LEMMA OperationIdsFine == MigrationFine(2, create_operation_ids)
<1> DEFINE t == "operation_ids"
           columns == Must({"operation_id", "status"}) \cup Text({"data"}) \cup May({"timestamp"})
                      \cup Times
<1>1. ColumnsFine(201, t, Must({"operation_id", "status"}))
  <2>1. /\ {"operation_id", "status"} \subseteq BaseOf(t)
        /\ "role_id" \notin {"operation_id", "status"}
      BY BaseOfIs
  <2>2. 201 \in Nat /\ 201 <= Never
      BY DEF Never
  <2> QED
      BY <2>1, <2>2, NamesFine
<1>2. ColumnsFine(201, t, Text({"data"}))
  <2>1. /\ {"data"} \subseteq BaseOf(t)
        /\ {"data"} \subseteq {"message", "data", "value1", "value2", "value3", "error_message"}
      BY BaseOfIs
  <2>2. 201 \in Nat /\ 201 <= Never
      BY DEF Never
  <2> QED
      BY <2>1, <2>2, NamesFine
<1>3. ColumnsFine(201, t, May({"timestamp"}))
  <2>1. {"timestamp"} \subseteq BaseOf(t)
      BY BaseOfIs
  <2>2. 201 \in Nat /\ 201 <= Never
      BY DEF Never
  <2> QED
      BY <2>1, <2>2, NamesFine
<1>4. ColumnsFine(201, t, Times)
  <2>1. {"created_at", "updated_at"} \subseteq BaseOf(t)
      BY BaseOfIs
  <2>2. 201 \in Nat /\ 201 <= Never
      BY DEF Never
  <2> QED
      BY <2>1, <2>2, NamesFine DEF Times
<1>5. ColumnsFine(201, t, columns)
    BY <1>1, <1>2, <1>3, <1>4, JoinFine
<1>6. BaseOf(t) \subseteq Names(columns)
    BY BaseOfIs, NamesAre DEF Times
<1> HIDE DEF columns
<1>7. MigrationFine(2, Creates(t, columns))
    BY <1>5, <1>6, CreatesFine, MadeAtIs, TableFromIs
<1> QED
    BY <1>7 DEF create_operation_ids, columns

LEMMA EventFine == MigrationFine(7, create_event)
<1> DEFINE t == "event"
           columns == Must({"operation_id", "name", "timestamp"}) \cup May({"id", "value1",
                      "value2", "value3"}) \cup Times
<1>1. ColumnsFine(701, t, Must({"operation_id", "name", "timestamp"}))
  <2>1. /\ {"operation_id", "name", "timestamp"} \subseteq BaseOf(t)
        /\ "role_id" \notin {"operation_id", "name", "timestamp"}
      BY BaseOfIs
  <2>2. 701 \in Nat /\ 701 <= Never
      BY DEF Never
  <2> QED
      BY <2>1, <2>2, NamesFine
<1>2. ColumnsFine(701, t, May({"id", "value1", "value2", "value3"}))
  <2>1. {"id", "value1", "value2", "value3"} \subseteq BaseOf(t)
      BY BaseOfIs
  <2>2. 701 \in Nat /\ 701 <= Never
      BY DEF Never
  <2> QED
      BY <2>1, <2>2, NamesFine
<1>3. ColumnsFine(701, t, Times)
  <2>1. {"created_at", "updated_at"} \subseteq BaseOf(t)
      BY BaseOfIs
  <2>2. 701 \in Nat /\ 701 <= Never
      BY DEF Never
  <2> QED
      BY <2>1, <2>2, NamesFine DEF Times
<1>4. ColumnsFine(701, t, columns)
    BY <1>1, <1>2, <1>3, JoinFine
<1>5. BaseOf(t) \subseteq Names(columns)
    BY BaseOfIs, NamesAre DEF Times
<1> HIDE DEF columns
<1>6. MigrationFine(7, Creates(t, columns))
    BY <1>4, <1>5, CreatesFine, MadeAtIs, TableFromIs
<1> QED
    BY <1>6 DEF create_event, columns

LEMMA AbilityFine == MigrationFine(8, create_ability)
<1> DEFINE t == "ability"
           columns == May({"id", "name"}) \cup Times
<1>0. t \in Still /\ 801 \in Nat /\ 801 <= Never
    BY GroundColumns DEF Still
<1>1. ColumnsFine(801, t, May({"id", "name"}))
    BY <1>0, StillNames
<1>2. ColumnsFine(801, t, Times)
    BY <1>0, StillNames DEF Times
<1>3. ColumnsFine(801, t, columns)
    BY <1>1, <1>2, JoinFine
<1>4. BaseOf(t) \subseteq Names(columns)
    BY BaseOfIs, NamesAre DEF Times
<1> HIDE DEF columns
<1>5. MigrationFine(8, Creates(t, columns))
    BY <1>3, <1>4, CreatesFine, MadeAtIs, TableFromIs
<1> QED
    BY <1>5 DEF create_ability, columns

LEMMA RoleFine == MigrationFine(9, create_role)
<1> DEFINE t == "role"
           columns == May({"id", "name"}) \cup Times
<1>0. t \in Still /\ 901 \in Nat /\ 901 <= Never
    BY GroundColumns DEF Still
<1>1. ColumnsFine(901, t, May({"id", "name"}))
    BY <1>0, StillNames
<1>2. ColumnsFine(901, t, Times)
    BY <1>0, StillNames DEF Times
<1>3. ColumnsFine(901, t, columns)
    BY <1>1, <1>2, JoinFine
<1>4. BaseOf(t) \subseteq Names(columns)
    BY BaseOfIs, NamesAre DEF Times
<1> HIDE DEF columns
<1>5. MigrationFine(9, Creates(t, columns))
    BY <1>3, <1>4, CreatesFine, MadeAtIs, TableFromIs
<1> QED
    BY <1>5 DEF create_role, columns

LEMMA UserFine == MigrationFine(10, create_user)
<1> DEFINE t == "user"
           columns == May({"id", "name", "role_id"}) \cup Times
<1>0. t \in Still /\ 1001 \in Nat /\ 1001 <= Never
    BY GroundColumns DEF Still
<1>1. ColumnsFine(1001, t, May({"id", "name", "role_id"}))
    BY <1>0, StillNames
<1>2. ColumnsFine(1001, t, Times)
    BY <1>0, StillNames DEF Times
<1>3. ColumnsFine(1001, t, columns)
    BY <1>1, <1>2, JoinFine
<1>4. BaseOf(t) \subseteq Names(columns)
    BY BaseOfIs, NamesAre DEF Times
<1> HIDE DEF columns
<1>5. UpFine(1001, CreateTableFor(t, columns, {"role"}))
    BY <1>3, <1>4, MadeUp, MadeAtIs, TableFromIs DEF TableThere
<1>6. DownFine(1001, DropTable(t))
    BY Downs, MadeAtIs
<1> QED
    BY <1>5, <1>6, UpLists, DownLists DEF MigrationFine, Migration, create_user, columns

LEMMA TokenFine == MigrationFine(11, create_token)
<1> DEFINE t == "token"
           columns == Must({"id", "name"}) \cup May({"user_id", "expires_at", "revoked"}) \cup
                      Times
<1>0. t \in Still /\ 1101 \in Nat /\ 1101 <= Never
    BY GroundColumns DEF Still
<1>1. ColumnsFine(1101, t, Must({"id", "name"}))
  <2>1. /\ {"id", "name"} \subseteq BaseOf(t)
        /\ "role_id" \notin {"id", "name"}
      BY BaseOfIs
  <2>2. 1101 \in Nat /\ 1101 <= Never
      BY DEF Never
  <2> QED
      BY <2>1, <2>2, NamesFine
<1>2. ColumnsFine(1101, t, May({"user_id", "expires_at", "revoked"}))
    BY <1>0, StillNames
<1>3. ColumnsFine(1101, t, Times)
    BY <1>0, StillNames DEF Times
<1>4. ColumnsFine(1101, t, columns)
    BY <1>1, <1>2, <1>3, JoinFine
<1>5. BaseOf(t) \subseteq Names(columns)
    BY BaseOfIs, NamesAre DEF Times
<1> HIDE DEF columns
<1>6. UpFine(1101, CreateTableFor(t, columns, {"user"}))
    BY <1>4, <1>5, MadeUp, MadeAtIs, TableFromIs DEF TableThere
<1>7. DownFine(1101, DropTable(t))
    BY Downs, MadeAtIs
<1> QED
    BY <1>6, <1>7, UpLists, DownLists DEF MigrationFine, Migration, create_token, columns

LEMMA RoleAbilityFine == MigrationFine(12, create_role_ability)
<1> DEFINE t == "role_ability"
           columns == May({"id", "ability_id", "role_id"}) \cup Times
<1>0. t \in Still /\ 1201 \in Nat /\ 1201 <= Never
    BY GroundColumns DEF Still
<1>1. ColumnsFine(1201, t, May({"id", "ability_id", "role_id"}))
    BY <1>0, StillNames
<1>2. ColumnsFine(1201, t, Times)
    BY <1>0, StillNames DEF Times
<1>3. ColumnsFine(1201, t, columns)
    BY <1>1, <1>2, JoinFine
<1>4. BaseOf(t) \subseteq Names(columns)
    BY BaseOfIs, NamesAre DEF Times
<1> HIDE DEF columns
<1>5. UpFine(1201, CreateTableFor(t, columns, {"ability", "role"}))
    BY <1>3, <1>4, MadeUp, MadeAtIs, TableFromIs DEF TableThere
<1>6. DownFine(1201, DropTable(t))
    BY Downs, MadeAtIs
<1> QED
    BY <1>5, <1>6, UpLists, DownLists DEF MigrationFine, Migration, create_role_ability, columns

LEMMA BlockchainEventFine == MigrationFine(14, create_blockchain_event)
<1> DEFINE t == "blockchain_event"
           columns == Must({"contract", "blockchain_id", "event", "block", "processed"}) \cup
                      {<<"data", {"value", "text"}>>} \cup May({"id"}) \cup Times
<1>1. ColumnsFine(1401, t, Must({"contract", "blockchain_id", "event", "block", "processed"}))
  <2>1. FineNames(1401, t, {"contract", "blockchain_id", "event", "block", "processed"})
      BY BaseQuiet, BaseOfIs, GroundColumns DEF FineNames
  <2>2. \A c \in {"contract", "blockchain_id", "event", "block", "processed"} : MayAsk(t, c)
      BY BaseOfIs, GroundColumns DEF MayAsk
  <2> QED
      BY <2>1, <2>2, FineMust
<1>2. ColumnsFine(1401, t, {<<"data", {"value", "text"}>>})
  <2>1. "data" \in BaseOf(t)
      BY BaseOfIs
  <2>2. GoneAt(t, "data") = Never /\ NotBefore(t, "data") = 0 /\ MayAsk(t, "data")
      BY <2>1, BaseQuiet
  <2>3. MayText(1402, t, "data")
      BY DEF MayText
  <2>4. ColumnFine(1401, t, <<"data", {"value", "text"}>>)
      BY <2>2, <2>3, GroundColumns DEF ColumnFine
  <2> QED
      BY <2>4 DEF ColumnsFine
<1>3. ColumnsFine(1401, t, May({"id"}))
  <2>1. {"id"} \subseteq BaseOf(t)
      BY BaseOfIs
  <2>2. 1401 \in Nat /\ 1401 <= Never
      BY DEF Never
  <2> QED
      BY <2>1, <2>2, NamesFine
<1>4. ColumnsFine(1401, t, Times)
  <2>1. {"created_at", "updated_at"} \subseteq BaseOf(t)
      BY BaseOfIs
  <2>2. 1401 \in Nat /\ 1401 <= Never
      BY DEF Never
  <2> QED
      BY <2>1, <2>2, NamesFine DEF Times
<1>5. ColumnsFine(1401, t, columns)
    BY <1>1, <1>2, <1>3, <1>4, JoinFine
<1>6. BaseOf(t) \subseteq Names(columns)
  <2> DEFINE a == {"contract", "blockchain_id", "event", "block", "processed"}
             x == {"value", "text"}
             c == {"created_at", "updated_at"}
  <2>1. /\ Names(Must(a)) = a /\ Names({<<"data", x>>}) = {"data"}
        /\ Names(May({"id"})) = {"id"} /\ Names(Times) = c
      BY NamesAre DEF Times
  <2>2. columns = ((Must(a) \cup {<<"data", x>>}) \cup May({"id"})) \cup Times
      OBVIOUS
  <2> HIDE DEF a, x, c, columns
  <2>3. Names(columns) = ((a \cup {"data"}) \cup {"id"}) \cup c
    <3> DEFINE m == Must(a)
               n == {<<"data", x>>}
               o == May({"id"})
    <3>1. Names(m) = a /\ Names(n) = {"data"} /\ Names(o) = {"id"} /\ Names(Times) = c
        BY <2>1
    <3> HIDE DEF m, n, o
    <3>2. Names(m \cup n) = a \cup {"data"}
        BY <3>1, NamesAre
    <3>3. Names((m \cup n) \cup o) = (a \cup {"data"}) \cup {"id"}
        BY <3>1, <3>2, NamesAre
    <3>4. Names(((m \cup n) \cup o) \cup Times) = ((a \cup {"data"}) \cup {"id"}) \cup c
        BY <3>1, <3>3, NamesAre
    <3> QED
        BY <2>2, <3>4 DEF m, n, o
  <2> QED
      BY <2>3, BaseOfIs DEF a, c
<1> HIDE DEF columns
<1>7. MigrationFine(14, Creates(t, columns))
    BY <1>5, <1>6, CreatesFine, MadeAtIs, TableFromIs
<1> QED
    BY <1>7 DEF create_blockchain_event, columns

LEMMA ShardFine == MigrationFine(15, create_shard)
<1> DEFINE t == "shard"
           columns == Must({"peer_id", "blockchain_id", "ask", "stake", "sha256"}) \cup
                      May({"last_seen", "last_dialed"})
<1>0. t \in Still /\ 1501 \in Nat /\ 1501 <= Never
    BY GroundColumns DEF Still
<1>1. ColumnsFine(1501, t, Must({"peer_id", "blockchain_id", "ask", "stake", "sha256"}))
  <2>1. /\ {"peer_id", "blockchain_id", "ask", "stake", "sha256"} \subseteq BaseOf(t)
        /\ "role_id" \notin {"peer_id", "blockchain_id", "ask", "stake", "sha256"}
      BY BaseOfIs
  <2>2. 1501 \in Nat /\ 1501 <= Never
      BY DEF Never
  <2> QED
      BY <2>1, <2>2, NamesFine
<1>2. ColumnsFine(1501, t, May({"last_seen", "last_dialed"}))
    BY <1>0, StillNames
<1>3. ColumnsFine(1501, t, columns)
    BY <1>1, <1>2, JoinFine
<1>4. BaseOf(t) \subseteq Names(columns)
    BY BaseOfIs, NamesAre DEF Times
<1> HIDE DEF columns
<1>5. MigrationFine(15, Creates(t, columns))
    BY <1>3, <1>4, CreatesFine, MadeAtIs, TableFromIs
<1> QED
    BY <1>5 DEF create_shard, columns

LEMMA BlockchainFine == MigrationFine(16, create_blockchain)
<1> DEFINE t == "blockchain"
           columns == Must({"blockchain_id", "contract"}) \cup May({"last_checked_block",
                      "last_checked_timestamp"})
<1>1. ColumnsFine(1601, t, Must({"blockchain_id", "contract"}))
  <2>1. FineNames(1601, t, {"blockchain_id", "contract"})
      BY BaseQuiet, BaseOfIs, GroundColumns DEF FineNames
  <2>2. \A c \in {"blockchain_id", "contract"} : MayAsk(t, c)
      BY BaseOfIs, GroundColumns DEF MayAsk
  <2> QED
      BY <2>1, <2>2, FineMust
<1>2. ColumnsFine(1601, t, May({"last_checked_block", "last_checked_timestamp"}))
  <2>1. {"last_checked_block", "last_checked_timestamp"} \subseteq BaseOf(t)
      BY BaseOfIs
  <2>2. 1601 \in Nat /\ 1601 <= Never
      BY DEF Never
  <2> QED
      BY <2>1, <2>2, NamesFine
<1>3. ColumnsFine(1601, t, columns)
    BY <1>1, <1>2, JoinFine
<1>4. BaseOf(t) \subseteq Names(columns)
    BY BaseOfIs, NamesAre DEF Times
<1> HIDE DEF columns
<1>5. MigrationFine(16, Creates(t, columns))
    BY <1>3, <1>4, CreatesFine, MadeAtIs, TableFromIs
<1> QED
    BY <1>5 DEF create_blockchain, columns

LEMMA ServiceAgreementsFine == MigrationFine(26, create_service_agreements)
<1> DEFINE t == "service_agreement"
           columns == Must({"blockchain_id", "asset_storage_contract_address", "token_id",
                      "agreement_id", "start_time", "epochs_number", "epoch_length",
                      "score_function_id", "state_index", "assertion_id", "hash_function_id",
                      "keyword", "proof_window_offset_perc"}) \cup May({"last_commit_epoch",
                      "last_proof_epoch"})
<1>1. ColumnsFine(2601, t, Must({"blockchain_id", "asset_storage_contract_address", "token_id",
      "agreement_id", "start_time", "epochs_number", "epoch_length", "score_function_id",
      "state_index", "assertion_id", "hash_function_id", "keyword", "proof_window_offset_perc"}))
  <2>1. FineNames(2601, t, {"blockchain_id", "asset_storage_contract_address", "token_id", "agreement_id", "start_time", "epochs_number", "epoch_length", "score_function_id", "state_index", "assertion_id", "hash_function_id", "keyword", "proof_window_offset_perc"})
      BY GoneAtIs, NotBeforeIs, GroundColumns DEF FineNames
  <2>2. \A c : MayAsk(t, c)
      BY DEF MayAsk, WrittenTables
  <2> QED
      BY <2>1, <2>2, FineMust
<1>2. ColumnsFine(2601, t, May({"last_commit_epoch", "last_proof_epoch"}))
  <2>1. FineNames(2601, t, {"last_commit_epoch", "last_proof_epoch"})
      BY GoneAtIs, NotBeforeIs, GroundColumns DEF FineNames
  <2>2. \A c : MayAsk(t, c)
      BY DEF MayAsk, WrittenTables
  <2> QED
      BY <2>1, <2>2, FineMust
<1>3. ColumnsFine(2601, t, columns)
    BY <1>1, <1>2, JoinFine
<1>4. BaseOf(t) \subseteq Names(columns)
    BY BaseOfIs, NamesAre DEF Times
<1> HIDE DEF columns
<1>5. MigrationFine(26, Creates(t, columns))
    BY <1>3, <1>4, CreatesFine, MadeAtIs, TableFromIs
<1> QED
    BY <1>5 DEF create_service_agreements, columns

LEMMA MissedParanetAssetFine == MigrationFine(36, create_missed_paranet_asset)
<1> DEFINE t == "missed_paranet_asset"
           columns == Must({"blockchain_id", "ual", "paranet_ual", "knowledge_asset_id"}) \cup
                      May({"id"}) \cup Times
<1>1. ColumnsFine(3601, t, Must({"blockchain_id", "ual", "paranet_ual", "knowledge_asset_id"}))
  <2>1. FineNames(3601, t, {"blockchain_id", "ual", "paranet_ual", "knowledge_asset_id"})
      BY BaseQuiet, BaseOfIs, GroundColumns DEF FineNames
  <2>2. \A c \in {"blockchain_id", "ual", "paranet_ual", "knowledge_asset_id"} : MayAsk(t, c)
      BY BaseOfIs, GroundColumns DEF MayAsk
  <2> QED
      BY <2>1, <2>2, FineMust
<1>2. ColumnsFine(3601, t, May({"id"}))
  <2>1. {"id"} \subseteq BaseOf(t)
      BY BaseOfIs
  <2>2. 3601 \in Nat /\ 3601 <= Never
      BY DEF Never
  <2> QED
      BY <2>1, <2>2, NamesFine
<1>3. ColumnsFine(3601, t, Times)
  <2>1. {"created_at", "updated_at"} \subseteq BaseOf(t)
      BY BaseOfIs
  <2>2. 3601 \in Nat /\ 3601 <= Never
      BY DEF Never
  <2> QED
      BY <2>1, <2>2, NamesFine DEF Times
<1>4. ColumnsFine(3601, t, columns)
    BY <1>1, <1>2, <1>3, JoinFine
<1>5. BaseOf(t) \subseteq Names(columns)
    BY BaseOfIs, NamesAre DEF Times
<1> HIDE DEF columns
<1>6. MigrationFine(36, Creates(t, columns))
    BY <1>4, <1>5, CreatesFine, MadeAtIs, TableFromIs
<1> QED
    BY <1>6 DEF create_missed_paranet_asset, columns

LEMMA AddsColumnFine ==
    ASSUME NEW k \in 1..60, k # 45, NEW t, NEW c, NEW asked, ColumnFine(100 * k + 1, t, <<c, asked>>),
           MadeAt(t) < 100 * k + 1, 100 * k + 1 <= NotBefore(t, c), c \notin BaseOf(t),
           AddedAt(t, c) >= 100 * k + 1
    PROVE  MigrationFine(k, AddsColumn(t, c, asked))
<1> DEFINE p == 100 * k + 1
           columns == {<<c, asked>>}
<1>1. ColumnsFine(p, t, columns) /\ p # 4501 /\ TableThere(p, t)
    BY SetsFine DEF TableThere
<1>2. \A x \in Names(columns) : p <= NotBefore(t, x)
  <2>1. Names(columns) = {c}
      BY NamesAre
  <2> QED
      BY <2>1
<1> HIDE DEF columns
<1>3. UpFine(p, AddColumn(t, columns))
    BY <1>1, <1>2, MadeUp
<1>4. DownFine(p, RemoveColumn(t, c))
    BY Downs
<1> HIDE DEF p
<1> USE DEF p
<1> QED
    BY <1>3, <1>4, UpLists, DownLists DEF MigrationFine, AddsColumn, Migration, columns

LEMMA AddsColumnsFine ==
    /\ MigrationFine(28, event_add_blockchain_id) /\ MigrationFine(34, add_service_agreement_data_source)
    /\ MigrationFine(41, add_error_message) /\ MigrationFine(44, add_synced_data_source)
    /\ MigrationFine(48, add_commands_priority) /\ MigrationFine(49, add_commands_is_blocking)
    /\ MigrationFine(59, add_min_acks_reached_column)
<1>1. MigrationFine(28, event_add_blockchain_id)
  <2>1. GoneAt("event", "blockchain_id") = Never /\ AddedAt("event", "blockchain_id") >= 2801
      BY GoneAtIs, AddedAtIs, GroundColumns
  <2>2. ColumnFine(2801, "event", <<"blockchain_id", {}>>)
      BY <2>1, GroundColumns DEF ColumnFine
  <2>3. "blockchain_id" \notin BaseOf("event")
      BY BaseOfIs
  <2>4. MadeAt("event") < 2801 /\ NotBefore("event", "blockchain_id") = 2801
      BY MadeAtIs, GroundColumns
  <2> QED
      BY <2>1, <2>2, <2>3, <2>4, AddsColumnFine DEF event_add_blockchain_id
<1>2. MigrationFine(34, add_service_agreement_data_source)
  <2>1. GoneAt("service_agreement", "data_source") = Never /\ AddedAt("service_agreement", "data_source") >= 3401
      BY GoneAtIs, AddedAtIs, GroundColumns
  <2>2. ColumnFine(3401, "service_agreement", <<"data_source", {}>>)
      BY <2>1, GroundColumns DEF ColumnFine
  <2>3. "data_source" \notin BaseOf("service_agreement")
      BY BaseOfIs
  <2>4. MadeAt("service_agreement") < 3401 /\ NotBefore("service_agreement", "data_source") = 3401
      BY MadeAtIs, GroundColumns
  <2> QED
      BY <2>1, <2>2, <2>3, <2>4, AddsColumnFine DEF add_service_agreement_data_source
<1>3. MigrationFine(41, add_error_message)
  <2>1. GoneAt("missed_paranet_asset", "error_message") = Never /\ AddedAt("missed_paranet_asset", "error_message") >= 4101
      BY GoneAtIs, AddedAtIs, GroundColumns
  <2>2. ColumnFine(4101, "missed_paranet_asset", <<"error_message", {"text"}>>)
      BY <2>1, GroundColumns DEF ColumnFine, MayText
  <2>3. "error_message" \notin BaseOf("missed_paranet_asset")
      BY BaseOfIs
  <2>4. MadeAt("missed_paranet_asset") < 4101 /\ NotBefore("missed_paranet_asset", "error_message") = 4101
      BY MadeAtIs, GroundColumns
  <2> QED
      BY <2>1, <2>2, <2>3, <2>4, AddsColumnFine DEF add_error_message
<1>4. MigrationFine(44, add_synced_data_source)
  <2>1. GoneAt("paranet_synced_asset", "data_source") = Never /\ AddedAt("paranet_synced_asset", "data_source") >= 4401
      BY GoneAtIs, AddedAtIs, GroundColumns
  <2>2. ColumnFine(4401, "paranet_synced_asset", <<"data_source", {"text"}>>)
      BY <2>1, GroundColumns DEF ColumnFine, MayText
  <2>3. "data_source" \notin BaseOf("paranet_synced_asset")
      BY BaseOfIs
  <2>4. MadeAt("paranet_synced_asset") < 4401 /\ NotBefore("paranet_synced_asset", "data_source") = 4401
      BY MadeAtIs, GroundColumns
  <2> QED
      BY <2>1, <2>2, <2>3, <2>4, AddsColumnFine DEF add_synced_data_source
<1>5. MigrationFine(48, add_commands_priority)
  <2>1. GoneAt("commands", "priority") = Never /\ AddedAt("commands", "priority") >= 4801
      BY GoneAtIs, AddedAtIs, GroundColumns
  <2>2. ColumnFine(4801, "commands", <<"priority", {}>>)
      BY <2>1, GroundColumns DEF ColumnFine
  <2>3. "priority" \notin BaseOf("commands")
      BY BaseOfIs
  <2>4. MadeAt("commands") < 4801 /\ NotBefore("commands", "priority") = 4801
      BY MadeAtIs, GroundColumns
  <2> QED
      BY <2>1, <2>2, <2>3, <2>4, AddsColumnFine DEF add_commands_priority
<1>6. MigrationFine(49, add_commands_is_blocking)
  <2>1. GoneAt("commands", "is_blocking") = Never /\ AddedAt("commands", "is_blocking") >= 4901
      BY GoneAtIs, AddedAtIs, GroundColumns
  <2>2. ColumnFine(4901, "commands", <<"is_blocking", {}>>)
      BY <2>1, GroundColumns DEF ColumnFine
  <2>3. "is_blocking" \notin BaseOf("commands")
      BY BaseOfIs
  <2>4. MadeAt("commands") < 4901 /\ NotBefore("commands", "is_blocking") = 4901
      BY MadeAtIs, GroundColumns
  <2> QED
      BY <2>1, <2>2, <2>3, <2>4, AddsColumnFine DEF add_commands_is_blocking
<1>7. MigrationFine(59, add_min_acks_reached_column)
  <2>1. GoneAt("operation_ids", "min_acks_reached") = Never /\ AddedAt("operation_ids", "min_acks_reached") >= 5901
      BY GoneAtIs, AddedAtIs, GroundColumns
  <2>2. ColumnFine(5901, "operation_ids", <<"min_acks_reached", {}>>)
      BY <2>1, GroundColumns DEF ColumnFine
  <2>3. "min_acks_reached" \notin BaseOf("operation_ids")
      BY BaseOfIs
  <2>4. MadeAt("operation_ids") < 5901 /\ NotBefore("operation_ids", "min_acks_reached") = 5901
      BY MadeAtIs, GroundColumns
  <2> QED
      BY <2>1, <2>2, <2>3, <2>4, AddsColumnFine DEF add_min_acks_reached_column
<1> QED
    BY <1>1, <1>2, <1>3, <1>4, <1>5, <1>6, <1>7

LEMMA ThereFrom ==
    /\ \A p, t : MadeAt(t) < p => TableThere(p, t) /\ \A c \in BaseOf(t) : ColumnThere(p, t, c)
    /\ \A p, t, c : FromAt(t, c) < p /\ p <= GoneAt(t, c) => ColumnThere(p, t, c)
    /\ \A p, t, c : AddedAt(t, c) < p => ColumnThere(p, t, c)
BY DEF TableThere, ColumnThere

LEMMA QueriedUp ==
    \A p, t, on : p # 4501 /\ MadeAt(t) < p /\ on \subseteq BaseOf(t) => UpFine(p, Query(t, on))
BY ThereFrom, AskedUp

LEMMA QueriesFine ==
    /\ MigrationFine(13, add_predefined_auth_entities) /\ MigrationFine(30, update_blockchain_id)
    /\ MigrationFine(31, remove_blockchain_info) /\ MigrationFine(60, prune_commands)
<1>1. MigrationFine(13, add_predefined_auth_entities)
  <2>1. /\ UpFine(1301, Query("ability", {"id", "name"})) /\ UpFine(1302, Query("role", {"id", "name"}))
        /\ UpFine(1303, Query("role_ability", {"ability_id", "role_id"}))
        /\ UpFine(1304, Query("user", {"name", "role_id"}))
      BY QueriedUp, MadeAtIs, BaseOfIs
  <2> QED
      BY <2>1, UpLists, DownLists DEF MigrationFine, Migration, add_predefined_auth_entities
<1>2. MigrationFine(30, update_blockchain_id)
  <2> DEFINE a == Query("shard", {"blockchain_id"})
             b == Query("service_agreement", {"blockchain_id"})
             c == Query("blockchain_event", {"blockchain_id"})
             d == Query("blockchain", {"blockchain_id"})
  <2>1. UpFine(3001, a) /\ UpFine(3002, b)
      BY QueriedUp, MadeAtIs, BaseOfIs
  <2>2. UpFine(3003, c) /\ UpFine(3004, d)
      BY AskedUp, ThereFrom, MadeAtIs, GroundColumns
  <2>3. DownFine(3001, a) /\ DownFine(3001, b) /\ DownFine(3001, c) /\ DownFine(3001, d)
      BY Downs
  <2>4. update_blockchain_id = Migration(<<a, b, c, d>>, <<a, b, c, d>>)
      BY DEF update_blockchain_id
  <2> HIDE DEF a, b, c, d
  <2> QED
      BY <2>1, <2>2, <2>3, <2>4, UpLists, DownLists DEF MigrationFine, Migration
<1>3. MigrationFine(31, remove_blockchain_info)
  <2>1. UpFine(3101, Query("blockchain", {"blockchain_id"}))
      BY AskedUp, ThereFrom, MadeAtIs, GroundColumns
  <2> QED
      BY <2>1, UpLists, DownLists DEF MigrationFine, Migration, remove_blockchain_info
<1>4. MigrationFine(60, prune_commands)
  <2>1. UpFine(6001, Query("commands", {}))
      BY QueriedUp, MadeAtIs
  <2> QED
      BY <2>1, UpLists, DownLists DEF MigrationFine, Migration, prune_commands
<1> QED
    BY <1>1, <1>2, <1>3, <1>4

LEMMA AbilitiesFine == MigrationFine(21, add_abilities) /\ MigrationFine(29, update_abilities)
<1> DEFINE a == Query("role_ability", {"ability_id", "role_id"})
           b == Query("ability", {"id", "name"})
<1>1. \A p \in Nat : p >= 2000 /\ p < 3000 => UpFine(p, a) /\ UpFine(p, b)
    BY QueriedUp, MadeAtIs, BaseOfIs
<1>2. \A p : DownFine(p, a) /\ DownFine(p, b)
    BY Downs
<1> HIDE DEF a, b
<1>3. AbilitiesGo = <<a, b>> /\ AbilitiesCome = <<b, a>>
    BY DEF AbilitiesGo, AbilitiesCome, Reverse, a, b
<1>4. ASSUME NEW x \in {a, b}, NEW y \in {a, b}
      PROVE  LET s == <<x, y>> \o <<y, x>> IN
             Len(s) = 4 /\ s[1] = x /\ s[2] = y /\ s[3] = y /\ s[4] = x
  <2>1. <<x, y>> \in Seq({a, b}) /\ <<y, x>> \in Seq({a, b})
      OBVIOUS
  <2> QED
      BY <2>1, ConcatProperties
<1>5. MigrationFine(21, add_abilities)
    BY <1>1, <1>2, <1>3, UpLists, DownLists DEF MigrationFine, Migration, add_abilities
<1>6. MigrationFine(29, update_abilities)
  <2> DEFINE s == <<b, a>> \o <<a, b>>
             r == <<a, b>> \o <<b, a>>
  <2>1. /\ Len(s) = 4 /\ s[1] = b /\ s[2] = a /\ s[3] = a /\ s[4] = b
        /\ Len(r) = 4 /\ \A n \in 1..4 : r[n] \in {a, b}
      BY <1>4
  <2> HIDE DEF s, r
  <2>2. AllUp(2900, s) /\ AllDown(2901, r)
      BY <2>1, <1>1, <1>2 DEF AllUp, AllDown
  <2>3. update_abilities = Migration(s, r)
      BY <1>3 DEF update_abilities, s, r
  <2> QED
    <3>1. update_abilities.up = s /\ update_abilities.down = r
        BY <2>3 DEF Migration
    <3>2. 100 * 29 = 2900 /\ 100 * 29 + 1 = 2901
        OBVIOUS
    <3>3. Len(s) \in Nat /\ Len(s) >= 1 /\ Len(s) <= 98
        BY <2>1
    <3> QED
        BY <2>2, <3>1, <3>2, <3>3 DEF MigrationFine
<1> QED
    BY <1>5, <1>6

LEMMA ChangedFine ==
    /\ \A p, t, names : names \subseteq BaseOf(t) /\ "role_id" \notin names /\ MadeAt(t) < p /\ p # 4501 =>
          /\ UpFine(p, ChangeColumn(t, May(names))) /\ UpFine(p, ChangeColumn(t, Must(names)))
          /\ p <= 2701 /\ names \subseteq {"value1", "value2", "value3"}
                => UpFine(p, ChangeColumn(t, Text(names)))
    /\ \A p, t, names : (\A c \in names : GoneAt(t, c) >= p) =>
          /\ DownFine(p, ChangeColumn(t, May(names))) /\ DownFine(p, ChangeColumn(t, Text(names)))
          /\ DownFine(p, AddColumn(t, May(names))) /\ DownFine(p, IfNeeded(AddColumn(t, May(names))))
          /\ (\A c \in names : MayAsk(t, c)) =>
                DownFine(p, ChangeColumn(t, Must(names))) /\ DownFine(p, AddColumn(t, Must(names)))
<1>0. /\ \A names : \A d \in May(names) : d[1] \in names /\ d[2] = {}
      /\ \A names : \A d \in Must(names) : d[1] \in names /\ d[2] = {"value"}
      /\ \A names : \A d \in Text(names) : d[1] \in names /\ d[2] = {"text"}
    BY DEF May, Must, Text
<1>1. ASSUME NEW p, NEW t, NEW names, names \subseteq BaseOf(t), "role_id" \notin names, MadeAt(t) < p, p # 4501
      PROVE  /\ UpFine(p, ChangeColumn(t, May(names))) /\ UpFine(p, ChangeColumn(t, Must(names)))
             /\ p <= 2701 /\ names \subseteq {"value1", "value2", "value3"}
                   => UpFine(p, ChangeColumn(t, Text(names)))
  <2>1. \A c \in names : ColumnThere(p, t, c) /\ MayAsk(t, c)
      BY <1>1, ThereFrom, BaseQuiet
  <2>2. UpFine(p, ChangeColumn(t, May(names))) /\ UpFine(p, ChangeColumn(t, Must(names)))
      BY <2>1, <1>0, <1>1, ChangedUp, NamesAre
  <2>3. p <= 2701 /\ names \subseteq {"value1", "value2", "value3"}
            => UpFine(p, ChangeColumn(t, Text(names)))
    <3>1. names \subseteq {"value1", "value2", "value3"} => \A c \in names : MayText(p + 1, t, c)
        BY DEF MayText
    <3>2. ASSUME p <= 2701, \A c \in names : MayText(p + 1, t, c)
          PROVE  UpFine(p, ChangeColumn(t, Text(names)))
      <4>1. \A d \in Text(names) : /\ "value" \in d[2] => MayAsk(t, d[1])
                                   /\ "text" \in d[2] => MayText(p + 1, t, d[1]) /\ p <= 2701
          BY <3>2, <1>0
      <4>2. \A c \in Names(Text(names)) : ColumnThere(p, t, c)
          BY <2>1, NamesAre
      <4> QED
          BY <4>1, <4>2, <1>1, ChangedUp
    <3> QED
        BY <3>1, <3>2
  <2> QED
      BY <2>2, <2>3
<1>2. ASSUME NEW p, NEW t, NEW names, \A c \in names : GoneAt(t, c) >= p
      PROVE  /\ DownFine(p, ChangeColumn(t, May(names))) /\ DownFine(p, ChangeColumn(t, Text(names)))
             /\ DownFine(p, AddColumn(t, May(names))) /\ DownFine(p, IfNeeded(AddColumn(t, May(names))))
             /\ (\A c \in names : MayAsk(t, c)) =>
                   DownFine(p, ChangeColumn(t, Must(names))) /\ DownFine(p, AddColumn(t, Must(names)))
  <2>1. \A d \in May(names) : GoneAt(t, d[1]) >= p /\ ("value" \in d[2] => MayAsk(t, d[1]))
      BY <1>0, <1>2
  <2>2. \A d \in Text(names) : GoneAt(t, d[1]) >= p /\ ("value" \in d[2] => MayAsk(t, d[1]))
      BY <1>0, <1>2
  <2>3. (\A c \in names : MayAsk(t, c)) =>
            \A d \in Must(names) : GoneAt(t, d[1]) >= p /\ ("value" \in d[2] => MayAsk(t, d[1]))
      BY <1>0, <1>2
  <2> QED
      BY <2>1, <2>2, <2>3, DownColumns
<1> QED
    BY <1>1, <1>2

LEMMA BaseStays == \A p, t, names : names \subseteq BaseOf(t) /\ p \in Nat /\ p <= Never =>
    \A c \in names : GoneAt(t, c) >= p /\ (c # "role_id" => MayAsk(t, c))
BY BaseQuiet, PositionsAre

LEMMA ChangesFine ==
    /\ MigrationFine(18, update_shard_types) /\ MigrationFine(19, update_commands_types)
    /\ MigrationFine(20, update_event_types) /\ MigrationFine(25, update_command_period_type)
    /\ MigrationFine(40, change_paranet_synced_asset_nullable)
    /\ MigrationFine(43, paranet_synced_asset_optional_fileds)
<1>1. MigrationFine(18, update_shard_types)
  <2>1. /\ UpFine(1801, ChangeColumn("shard", May({"ask"})))
        /\ UpFine(1802, ChangeColumn("shard", May({"stake"})))
      BY ChangedFine, MadeAtIs, BaseOfIs
  <2>2. DownFine(1801, ChangeColumn("shard", May({"ask"})))
      BY ChangedFine, GoneAtIs, GroundColumns
  <2> QED
      BY <2>1, <2>2, UpLists, DownLists DEF MigrationFine, Migration, update_shard_types
<1>2. MigrationFine(19, update_commands_types)
  <2> DEFINE a == ChangeColumn("commands", May({"ready_at"}))
             b == ChangeColumn("commands", May({"delay"}))
             c == ChangeColumn("commands", May({"started_at"}))
             d == ChangeColumn("commands", May({"deadline_at"}))
  <2>1. UpFine(1901, a) /\ UpFine(1902, b) /\ UpFine(1903, c) /\ UpFine(1904, d)
      BY ChangedFine, MadeAtIs, BaseOfIs
  <2>2. DownFine(1901, a) /\ DownFine(1901, b) /\ DownFine(1901, c) /\ DownFine(1901, d)
      BY ChangedFine, GoneAtIs, GroundColumns
  <2>3. update_commands_types = Migration(<<a, b, c, d>>, <<a, b, c, d>>)
      BY DEF update_commands_types
  <2> HIDE DEF a, b, c, d
  <2> QED
      BY <2>1, <2>2, <2>3, UpLists, DownLists DEF MigrationFine, Migration
<1>3. MigrationFine(20, update_event_types)
  <2>1. /\ UpFine(2001, ChangeColumn("event", Text({"value1"})))
        /\ UpFine(2002, ChangeColumn("event", Text({"value2"})))
        /\ UpFine(2003, ChangeColumn("event", Text({"value3"})))
    <3>1. MadeAt("event") = 701 /\ {"value1", "value2", "value3"} \subseteq BaseOf("event")
        BY MadeAtIs, BaseOfIs
    <3> QED
        BY <3>1, ChangedFine
  <2>2. /\ DownFine(2001, ChangeColumn("event", May({"value1"})))
        /\ DownFine(2001, ChangeColumn("event", May({"value2"})))
        /\ DownFine(2001, ChangeColumn("event", May({"value3"})))
      BY ChangedFine, GoneAtIs, GroundColumns
  <2> QED
      BY <2>1, <2>2, UpLists, DownLists DEF MigrationFine, Migration, update_event_types
<1>4. MigrationFine(25, update_command_period_type)
  <2>1. UpFine(2501, ChangeColumn("commands", May({"period"})))
      BY ChangedFine, MadeAtIs, BaseOfIs
  <2>2. DownFine(2501, ChangeColumn("commands", May({"period"})))
      BY ChangedFine, GoneAtIs, GroundColumns
  <2> QED
      BY <2>1, <2>2, UpLists, DownLists DEF MigrationFine, Migration, update_command_period_type
<1>5. /\ MigrationFine(40, change_paranet_synced_asset_nullable)
      /\ MigrationFine(43, paranet_synced_asset_optional_fileds)
  <2> DEFINE t == "paranet_synced_asset"
  <2>1. \A p \in Nat : p > 3900 /\ p < 4500 =>
           \A c \in {"public_assertion_id", "private_assertion_id", "sender", "transaction_hash"} :
              /\ UpFine(p, ChangeColumn(t, May({c}))) /\ UpFine(p, ChangeColumn(t, Must({c})))
              /\ DownFine(p, ChangeColumn(t, May({c}))) /\ DownFine(p, ChangeColumn(t, Must({c})))
    <3> SUFFICES ASSUME NEW p \in Nat, p > 3900, p < 4500,
                        NEW c \in {"public_assertion_id", "private_assertion_id", "sender",
                                   "transaction_hash"}
                 PROVE  /\ UpFine(p, ChangeColumn(t, May({c}))) /\ UpFine(p, ChangeColumn(t, Must({c})))
                        /\ DownFine(p, ChangeColumn(t, May({c}))) /\ DownFine(p, ChangeColumn(t, Must({c})))
        OBVIOUS
    <3>1. /\ {c} \subseteq BaseOf(t) /\ MadeAt(t) < p /\ p # 4501 /\ p <= Never
          /\ c # "role_id" /\ "role_id" \notin {c}
        BY BaseOfIs, MadeAtIs, GroundColumns
    <3>2. \A x \in {c} : GoneAt(t, x) >= p /\ MayAsk(t, x)
        BY <3>1, BaseStays
    <3> QED
        BY <3>1, <3>2, ChangedFine
  <2> QED
      BY <2>1, UpLists, DownLists DEF MigrationFine, Migration, change_paranet_synced_asset_nullable,
         paranet_synced_asset_optional_fileds
<1> QED
    BY <1>1, <1>2, <1>3, <1>4, <1>5

LEMMA AgreementsFine ==
    /\ MigrationFine(17, update_publish_add_agreement_data)
    /\ MigrationFine(23, update_publish_remove_agreement_data)
<1> DEFINE t == "publish"
           a == "agreementId"
           b == "agreementStatus"
<1>1. /\ \A c : GoneAt(t, c) = Never /\ AddedAt(t, c) = Never /\ FromAt(t, c) = Never
      /\ a \notin BaseOf(t) /\ b \notin BaseOf(t) /\ MadeAt(t) = 301
      /\ NotBefore(t, a) = 1701 /\ NotBefore(t, b) = 1702 /\ Never = 100000
    BY GoneAtIs, AddedAtIs, BaseOfIs, MadeAtIs, GroundColumns DEF FromAt
<1>2. UpFine(1701, AddColumn(t, May({a}))) /\ UpFine(1702, AddColumn(t, May({b})))
  <2>1. ColumnsFine(1701, t, May({a})) /\ ColumnsFine(1702, t, May({b}))
      BY <1>1, OneFine
  <2>2. TableThere(1701, t) /\ TableThere(1702, t)
      BY <1>1, ThereFrom
  <2>3. Names(May({a})) = {a} /\ Names(May({b})) = {b}
      BY NamesAre
  <2> QED
      BY <1>1, <2>1, <2>2, <2>3, MadeUp
<1>3. UpFine(2301, IfNeeded(RemoveColumn(t, a))) /\ UpFine(2302, IfNeeded(RemoveColumn(t, b)))
    BY <1>1, LeftUp
<1>4. DownFine(1701, RemoveColumn(t, a)) /\ DownFine(1701, RemoveColumn(t, b))
    BY <1>1, Downs
<1>5. DownFine(2301, AddColumn(t, May({a}))) /\ DownFine(2301, AddColumn(t, May({b})))
    BY <1>1, ChangedFine
<1> QED
    BY <1>2, <1>3, <1>4, <1>5, UpLists, DownLists
    DEF MigrationFine, Migration, update_publish_add_agreement_data, update_publish_remove_agreement_data

(* The names of the new indexes are each of one, and no others are.         *)
LEMMA PlaceIs == \A i \in 1..28 : Place(NewIndexes[i].index) = i
<1> DEFINE Is(i, s) == Place(s.index) = i
<1>1. /\ Is(1, NewIndexes[1]) /\ Is(2, NewIndexes[2]) /\ Is(3, NewIndexes[3]) /\ Is(4, NewIndexes[4])
      /\ Is(5, NewIndexes[5]) /\ Is(6, NewIndexes[6]) /\ Is(7, NewIndexes[7])
    BY NewIndexesIs DEF AddIndex, Place
<1>2. /\ Is(8, NewIndexes[8]) /\ Is(9, NewIndexes[9]) /\ Is(10, NewIndexes[10]) /\ Is(11, NewIndexes[11])
      /\ Is(12, NewIndexes[12]) /\ Is(13, NewIndexes[13]) /\ Is(14, NewIndexes[14])
    BY NewIndexesIs DEF AddIndex, Place
<1>3. /\ Is(15, NewIndexes[15]) /\ Is(16, NewIndexes[16]) /\ Is(17, NewIndexes[17])
      /\ Is(18, NewIndexes[18]) /\ Is(19, NewIndexes[19]) /\ Is(20, NewIndexes[20])
      /\ Is(21, NewIndexes[21])
    BY NewIndexesIs DEF AddIndex, Place
<1>4. /\ Is(22, NewIndexes[22]) /\ Is(23, NewIndexes[23]) /\ Is(24, NewIndexes[24])
      /\ Is(25, NewIndexes[25]) /\ Is(26, NewIndexes[26]) /\ Is(27, NewIndexes[27])
      /\ Is(28, NewIndexes[28])
    BY NewIndexesIs DEF AddIndex, Place
<1> HIDE DEF Is
<1>5. \A i \in 1..28 : Is(i, NewIndexes[i])
    BY <1>1, <1>2, <1>3, <1>4
<1> QED
    BY <1>5 DEF Is

OldIndexes == {"idx_blockchain_event_processed", "before_insert_paranet_synced_asset",
               "before_update_paranet_synced_asset", "idx_paranet_ual_created_at", "idx_sender",
               "idx_paranet_ual_unique", "finality_status_ual_peer_id_uk"}

LEMMA OldIndexesAre ==
    /\ \A x \in OldIndexes : \A i \in 1..27 : NewIndexes[i].index # x
    /\ \A i \in 1..28 : NamedAt(NewIndexes[i].index) = 4600
    /\ NamedAt("idx_blockchain_event_processed") = 2701
    /\ NamedAt("before_insert_paranet_synced_asset") = 3802
    /\ NamedAt("before_update_paranet_synced_asset") = 3803
    /\ NamedAt("idx_paranet_ual_created_at") = 3804 /\ NamedAt("idx_sender") = 3805
    /\ NamedAt("idx_paranet_ual_unique") = 3806 /\ NamedAt("finality_status_ual_peer_id_uk") = 5702
<1>1. \A x \in OldIndexes : Place(x) = 0
    BY DEF OldIndexes, Place
<1>2. \A i \in 1..28 : NewIndexes[i].index \notin OldIndexes
    BY <1>1, PlaceIs
<1>3. \A x : x \notin OldIndexes => NamedAt(x) = 4600
    BY DEF NamedAt, OldIndexes
<1>4. /\ NamedAt("idx_blockchain_event_processed") = 2701
      /\ NamedAt("before_insert_paranet_synced_asset") = 3802
      /\ NamedAt("before_update_paranet_synced_asset") = 3803
      /\ NamedAt("idx_paranet_ual_created_at") = 3804 /\ NamedAt("idx_sender") = 3805
      /\ NamedAt("idx_paranet_ual_unique") = 3806 /\ NamedAt("finality_status_ual_peer_id_uk") = 5702
    BY DEF NamedAt
<1> QED
    BY <1>2, <1>3, <1>4

LEMMA EventIndexFine == MigrationFine(27, add_blockchain_event_index)
<1> DEFINE t == "blockchain_event"
           x == "idx_blockchain_event_processed"
<1>1. ColumnThere(2701, t, "processed") /\ ~MayText(2701, t, "processed")
  <2>1. MadeAt(t) = 1401 /\ "processed" \in BaseOf(t)
      BY MadeAtIs, BaseOfIs
  <2>2. ~MayText(2701, t, "processed")
      BY DEF MayText
  <2> QED
      BY <2>1, <2>2, ThereFrom
<1>2. NamedAt(x) = 2701 /\ \A i \in 1..27 : NewIndexes[i].index # x
    BY OldIndexesAre DEF OldIndexes
<1>3. UpFine(2701, AddIndex(t, {"processed"}, x))
    BY <1>1, <1>2, IndexedUp
<1>4. DownFine(2701, RemoveIndex(t, x))
    BY <1>2, Downs
<1> QED
    BY <1>3, <1>4, UpLists, DownLists DEF MigrationFine, Migration, add_blockchain_event_index

LEMMA ShardBlobFine ==
    MigrationFine(32, shard_add_sha256blobl) /\ MigrationFine(33, remove_sha256Blob)
<1> DEFINE t == "shard"
           c == "sha256_blob"
           columns == May({c})
<1>1. /\ GoneAt(t, c) = Never /\ AddedAt(t, c) = Never /\ FromAt(t, c) = Never /\ NotBefore(t, c) = 0
      /\ c \notin BaseOf(t) /\ MadeAt(t) = 1501 /\ Never = 100000
    BY GoneAtIs, AddedAtIs, BaseOfIs, MadeAtIs, NotBeforeIs, GroundColumns DEF FromAt
<1>2. UpFine(3201, DescribeTable(t)) /\ UpFine(3301, DescribeTable(t))
    BY <1>1, QueriedUp DEF DescribeTable
<1>3. UpFine(3202, IfNeeded(AddColumn(t, columns)))
  <2>1. ColumnsFine(3202, t, columns)
      BY <1>1, OneFine
  <2>2. TableThere(3202, t)
      BY <1>1, ThereFrom
  <2> QED
      BY <2>1, <2>2, MadeUp
<1>4. UpFine(3302, IfNeeded(RemoveColumn(t, c)))
    BY <1>1, LeftUp
<1>5. DownFine(3201, RemoveColumn(t, c))
    BY <1>1, Downs
<1>6. DownFine(3301, DescribeTable(t)) /\ DownFine(3301, IfNeeded(AddColumn(t, columns)))
    BY <1>1, Downs, ChangedFine DEF DescribeTable
<1> QED
    BY <1>2, <1>3, <1>4, <1>5, <1>6, UpLists, DownLists
    DEF MigrationFine, Migration, shard_add_sha256blobl, remove_sha256Blob

LEMMA ParanetFine == MigrationFine(35, create_paranet)
<1> DEFINE t == "paranet"
           a == {"blockchain_id"}
           b == {"id", "name", "description", "paranet_id", "ka_count"}
           columns == Must(a) \cup May(b) \cup Times
<1>1. ColumnsFine(3501, t, Must(a)) /\ ColumnsFine(3501, t, May(b)) /\ ColumnsFine(3501, t, Times)
  <2>1. /\ a \subseteq BaseOf(t)
        /\ "role_id" \notin a
        /\ b \subseteq BaseOf(t)
        /\ {"created_at", "updated_at"} \subseteq BaseOf(t)
      BY BaseOfIs
  <2>2. 3501 \in Nat /\ 3501 <= Never
      BY DEF Never
  <2> QED
      BY <2>1, <2>2, NamesFine DEF Times
<1>2. ColumnsFine(3501, t, columns)
    BY <1>1, JoinFine
<1>3. BaseOf(t) \subseteq Names(columns)
    BY BaseOfIs, NamesAre DEF Times
<1> HIDE DEF columns
<1>4. UpFine(3501, CreateTable(t, columns))
    BY <1>2, <1>3, MadeUp, MadeAtIs, TableFromIs DEF CreateTable
<1>5. DownFine(3501, DropTable("Paranet"))
    BY Downs, MadeAtIs, GroundColumns
<1> QED
    BY <1>4, <1>5, UpLists, DownLists DEF MigrationFine, Migration, create_paranet, columns

LEMMA SyncedAssetFine == MigrationFine(38, create_paranet_synced_asset)
<1> DEFINE t == "paranet_synced_asset"
           a == {"blockchain_id", "ual", "paranet_ual", "private_assertion_id", "sender",
                 "transaction_hash"}
           b == {"id", "public_assertion_id"}
           columns == Must(a) \cup May(b) \cup Times
           i == "before_insert_paranet_synced_asset"
           u == "before_update_paranet_synced_asset"
           x == "idx_paranet_ual_created_at"
           y == "idx_sender"
           z == "idx_paranet_ual_unique"
<1>1. ColumnsFine(3801, t, Must(a)) /\ ColumnsFine(3801, t, May(b)) /\ ColumnsFine(3801, t, Times)
  <2>1. /\ a \subseteq BaseOf(t)
        /\ "role_id" \notin a
        /\ b \subseteq BaseOf(t)
        /\ {"created_at", "updated_at"} \subseteq BaseOf(t)
      BY BaseOfIs
  <2>2. 3801 \in Nat /\ 3801 <= Never
      BY DEF Never
  <2> QED
      BY <2>1, <2>2, NamesFine DEF Times
<1>2. ColumnsFine(3801, t, columns)
    BY <1>1, JoinFine
<1>3. BaseOf(t) \subseteq Names(columns)
    BY BaseOfIs, NamesAre DEF Times
<1> HIDE DEF columns
<1>4. UpFine(3801, CreateTable(t, columns))
    BY <1>2, <1>3, MadeUp, MadeAtIs, TableFromIs DEF CreateTable
<1>5. \A p \in Nat : p > 3801 => \A c \in {"created_at", "updated_at", "paranet_ual", "sender"} :
           ColumnThere(p, t, c) /\ ~MayText(p, t, c)
  <2>1. \A p, c : c \in {"created_at", "updated_at", "paranet_ual", "sender"} => ~MayText(p, t, c)
      BY DEF MayText
  <2>2. {"created_at", "updated_at", "paranet_ual", "sender"} \subseteq BaseOf(t) /\ MadeAt(t) = 3801
      BY BaseOfIs, MadeAtIs
  <2> QED
      BY <2>1, <2>2, ThereFrom
<1>6. \A w \in {i, u, x, y, z} : \A k \in 1..27 : NewIndexes[k].index # w
    BY OldIndexesAre DEF OldIndexes
<1>7. ASSUME NEW w \in {i, u, x, y, z}, NEW p \in Nat, p > 3801, p # 4501, NamedAt(w) = p,
             NEW c \in {"created_at", "updated_at", "paranet_ual", "sender"},
             NEW d \in {"created_at", "updated_at", "paranet_ual", "sender"}
      PROVE  UpFine(p, AddIndex(t, {c}, w)) /\ UpFine(p, AddIndex(t, {c, d}, w))
  <2>1. ColumnThere(p, t, c) /\ ~MayText(p, t, c) /\ ColumnThere(p, t, d) /\ ~MayText(p, t, d)
      BY <1>5, <1>7
  <2>2. \A k \in 1..27 : NewIndexes[k].index # w
      BY <1>6, <1>7
  <2>3. ASSUME NEW on, on \subseteq {c, d} PROVE UpFine(p, AddIndex(t, on, w))
    <3>1. \A e \in on : ColumnThere(p, t, e) /\ ~MayText(p, t, e)
        BY <2>1, <2>3
    <3> QED
        BY <1>7, <2>2, <3>1, IndexedUp
  <2> QED
      BY <2>3
<1>8. /\ UpFine(3802, AddIndex(t, {"created_at"}, i)) /\ UpFine(3803, AddIndex(t, {"updated_at"}, u))
      /\ UpFine(3804, AddIndex(t, {"paranet_ual", "created_at"}, x))
      /\ UpFine(3805, AddIndex(t, {"sender"}, y)) /\ UpFine(3806, AddIndex(t, {"paranet_ual"}, z))
    BY <1>7, OldIndexesAre
<1>9. DownFine(3801, DropTable(t))
    BY Downs, MadeAtIs
<1>10. DownFine(3801, IfNeeded(RemoveIndex(t, i))) /\ DownFine(3801, IfNeeded(RemoveIndex(t, u)))
    BY <1>6, Downs
<1> DEFINE s1 == CreateTable(t, columns)
           s2 == AddIndex(t, {"created_at"}, i)
           s3 == AddIndex(t, {"updated_at"}, u)
           s4 == AddIndex(t, {"paranet_ual", "created_at"}, x)
           s5 == AddIndex(t, {"sender"}, y)
           s6 == AddIndex(t, {"paranet_ual"}, z)
           d1 == DropTable(t)
           d2 == IfNeeded(RemoveIndex(t, i))
           d3 == IfNeeded(RemoveIndex(t, u))
<1>11. create_paranet_synced_asset = Migration(<<s1, s2, s3, s4, s5, s6>>, <<d1, d2, d3>>)
    BY DEF create_paranet_synced_asset, columns
<1> HIDE DEF s1, s2, s3, s4, s5, s6, d1, d2, d3
<1>12. AllUp(3800, <<s1, s2, s3, s4, s5, s6>>)
    BY <1>4, <1>8, UpLists DEF s1, s2, s3, s4, s5, s6
<1>13. AllDown(3801, <<d1, d2, d3>>)
    BY <1>9, <1>10, DownLists DEF d1, d2, d3
<1> QED
    BY <1>11, <1>12, <1>13 DEF MigrationFine, Migration

LEMMA KnowledgeAssetFine == MigrationFine(42, remove_knowledge_asset_id)
<1> DEFINE t == "missed_paranet_asset"
           c == "knowledge_asset_id"
<1>1. /\ GoneAt(t, c) = 4201 /\ AddedAt(t, c) = Never /\ FromAt(t, c) = 3601
      /\ c \notin BaseOf(t) /\ Never = 100000 /\ MayAsk(t, c)
    BY AddedAtIs, BaseOfIs, GroundColumns DEF MayAsk
<1>2. UpFine(4201, RemoveColumn(t, c))
    BY <1>1, LeftUp, ThereFrom
<1>3. DownFine(4201, AddColumn(t, Must({c})))
    BY <1>1, ChangedFine
<1> QED
    BY <1>2, <1>3, UpLists, DownLists DEF MigrationFine, Migration, remove_knowledge_asset_id

LEMMA DataSourceFine == MigrationFine(45, change_data_source_col_type)
<1> DEFINE t == "paranet_synced_asset"
           c == "data_source"
<1>1. AddedAt(t, c) = 4401 /\ GoneAt(t, c) = Never /\ Never = 100000
    BY GoneAtIs, GroundColumns
<1>2. \A d \in May({c}) : "value" \notin d[2] /\ "text" \notin d[2]
    BY DEF May
<1>3. \A x \in Names(May({c})) : ColumnThere(4501, t, x)
    BY <1>1, ThereFrom, NamesAre
<1>4. UpFine(4501, ChangeColumn(t, May({c})))
    BY <1>2, <1>3, ChangedUp
<1>5. DownFine(4501, ChangeColumn(t, Text({c})))
    BY <1>1, ChangedFine
<1> QED
    BY <1>4, <1>5, UpLists, DownLists DEF MigrationFine, Migration, change_data_source_col_type

LEMMA DatasetRootFine ==
    /\ MigrationFine(47, rename_keyword_column_to_datasetroot)
    /\ MigrationFine(50, remove_datasetroot_response_table)
<1> DEFINE t == "publish_response"
           u == "get_response"
           k == "keyword"
           d == "dataset_root"
<1>1. /\ GoneAt(t, k) = 4701 /\ GoneAt(u, k) = 4702 /\ GoneAt(t, d) = 5001 /\ GoneAt(u, d) = 5002
      /\ FromAt(t, k) = 401 /\ FromAt(u, k) = 601 /\ FromAt(t, d) = 4701 /\ FromAt(u, d) = 4702
      /\ NotBefore(t, d) = 4701 /\ NotBefore(u, d) = 4702 /\ Never = 100000
    BY GroundColumns
<1>2. \A x \in {t, u} : /\ \A c : AddedAt(x, c) = Never
                        /\ \A c \in {k, d} : c \notin BaseOf(x) /\ MayAsk(x, c) /\ \A p : ~MayText(p, x, c)
  <2>1. \A x \in {t, u} : \A c : AddedAt(x, c) = Never
      BY AddedAtIs
  <2>2. \A x \in {t, u} : \A c \in {k, d} : c \notin BaseOf(x)
      BY BaseOfIs
  <2>3. \A x \in {t, u} : \A c \in {k, d} : MayAsk(x, c)
      BY <1>1 DEF MayAsk
  <2>4. \A x \in {t, u} : \A c \in {k, d} : \A p : ~MayText(p, x, c)
      BY DEF MayText
  <2> QED
      BY <2>1, <2>2, <2>3, <2>4
<1>3. UpFine(4701, RenameColumn(t, k, d)) /\ UpFine(4702, RenameColumn(u, k, d))
  <2>1. ColumnThere(4701, t, k) /\ ColumnThere(4702, u, k)
      BY <1>1, ThereFrom
  <2> QED
      BY <2>1, <1>1, <1>2, LeftUp
<1>4. UpFine(5001, RemoveColumn(t, d)) /\ UpFine(5002, RemoveColumn(u, d))
  <2>1. ColumnThere(5001, t, d) /\ ColumnThere(5002, u, d)
      BY <1>1, ThereFrom
  <2> QED
      BY <2>1, <1>1, <1>2, LeftUp
<1>5. DownFine(4701, RenameColumn(t, d, k)) /\ DownFine(4701, RenameColumn(u, d, k))
    BY <1>1, <1>2, Downs
<1>6. DownFine(5001, AddColumn(t, Must({d}))) /\ DownFine(5001, AddColumn(u, Must({d})))
    BY <1>1, <1>2, ChangedFine
<1>7. MigrationFine(47, rename_keyword_column_to_datasetroot)
    BY <1>3, <1>5, UpLists, DownLists DEF MigrationFine, Migration, rename_keyword_column_to_datasetroot
<1>8. MigrationFine(50, remove_datasetroot_response_table)
    BY <1>4, <1>6, UpLists, DownLists DEF MigrationFine, Migration, remove_datasetroot_response_table
<1> QED
    BY <1>7, <1>8

LEMMA NewIndexesFine == MigrationFine(46, add_indexes_to_tables)
<1> DEFINE up == [i \in DOMAIN NewIndexes |-> IfNeeded(NewIndexes[i])]
           down == [i \in DOMAIN NewIndexes |-> RemoveIndex(NewIndexes[i].table, RemovedIndex(NewIndexes[i].index))]
<1>1. \A i \in 1..28 : NewIndexes[i] = AddIndex(NewIndexes[i].table, NewIndexes[i].on, NewIndexes[i].index)
  <2> DEFINE Is(s) == s = AddIndex(s.table, s.on, s.index)
  <2>1. \A t, on, x : Is(AddIndex(t, on, x))
      BY DEF AddIndex
  <2> HIDE DEF Is
  <2>2. /\ Is(NewIndexes[1]) /\ Is(NewIndexes[2]) /\ Is(NewIndexes[3]) /\ Is(NewIndexes[4])
        /\ Is(NewIndexes[5]) /\ Is(NewIndexes[6]) /\ Is(NewIndexes[7]) /\ Is(NewIndexes[8])
        /\ Is(NewIndexes[9]) /\ Is(NewIndexes[10]) /\ Is(NewIndexes[11]) /\ Is(NewIndexes[12])
        /\ Is(NewIndexes[13]) /\ Is(NewIndexes[14]) /\ Is(NewIndexes[15]) /\ Is(NewIndexes[16])
        /\ Is(NewIndexes[17]) /\ Is(NewIndexes[18]) /\ Is(NewIndexes[19]) /\ Is(NewIndexes[20])
        /\ Is(NewIndexes[21]) /\ Is(NewIndexes[22]) /\ Is(NewIndexes[23]) /\ Is(NewIndexes[24])
        /\ Is(NewIndexes[25]) /\ Is(NewIndexes[26]) /\ Is(NewIndexes[27]) /\ Is(NewIndexes[28])
      BY <2>1, NewIndexesIs
  <2>3. \A i \in 1..28 : Is(NewIndexes[i])
      BY <2>2
  <2> QED
      BY <2>3 DEF Is
<1>2. \A i \in 1..27 : \A c \in NewIndexes[i].on :
          ColumnThere(4600 + i, NewIndexes[i].table, c)
  <2> SUFFICES ASSUME NEW i \in 1..27, NEW c \in NewIndexes[i].on
               PROVE  ColumnThere(4600 + i, NewIndexes[i].table, c)
      OBVIOUS
  <2>1. MadeAt(NewIndexes[i].table) < 4600 + i
      BY NewIndexesAre, PositionsAre
  <2>2. c \in BaseOf(NewIndexes[i].table) \/ AddedAt(NewIndexes[i].table, c) = 4401
      BY NewIndexesAre
  <2> QED
      BY <2>1, <2>2, ThereFrom
<1>3. \A c \in NewIndexes[28].on : ColumnThere(4628, NewIndexes[28].table, c)
  <2>1. NewIndexes[28].table = "blockchain" /\ NewIndexes[28].on = {"contract"}
      BY NewIndexesIs DEF AddIndex
  <2> QED
      BY <2>1, ThereFrom, GroundColumns
<1>4. \A i \in 1..28 : \A c \in NewIndexes[i].on : ~MayText(4600 + i, NewIndexes[i].table, c)
  <2> DEFINE Texts == {"message", "data", "value1", "value2", "value3", "error_message"}
             Is(s) == \A c \in s.on : c \notin Texts
  <2>1. /\ Is(NewIndexes[1]) /\ Is(NewIndexes[2]) /\ Is(NewIndexes[3]) /\ Is(NewIndexes[4])
        /\ Is(NewIndexes[5]) /\ Is(NewIndexes[6]) /\ Is(NewIndexes[7]) /\ Is(NewIndexes[8])
        /\ Is(NewIndexes[9]) /\ Is(NewIndexes[10]) /\ Is(NewIndexes[11]) /\ Is(NewIndexes[12])
        /\ Is(NewIndexes[13]) /\ Is(NewIndexes[14])
      BY NewIndexesIs DEF AddIndex
  <2>2. /\ Is(NewIndexes[15]) /\ Is(NewIndexes[16])
        /\ Is(NewIndexes[17]) /\ Is(NewIndexes[18]) /\ Is(NewIndexes[19]) /\ Is(NewIndexes[20])
        /\ Is(NewIndexes[21]) /\ Is(NewIndexes[22]) /\ Is(NewIndexes[23]) /\ Is(NewIndexes[24])
        /\ Is(NewIndexes[25]) /\ Is(NewIndexes[26]) /\ Is(NewIndexes[27]) /\ Is(NewIndexes[28])
      BY NewIndexesIs DEF AddIndex
  <2> HIDE DEF Is
  <2>3. \A i \in 1..28 : Is(NewIndexes[i])
      BY <2>1, <2>2
  <2> QED
      BY <2>3 DEF Is, MayText
<1>5. \A i \in 1..28 : UpFine(4600 + i, IfNeeded(NewIndexes[i]))
  <2> SUFFICES ASSUME NEW i \in 1..28 PROVE UpFine(4600 + i, IfNeeded(NewIndexes[i]))
      OBVIOUS
  <2> DEFINE t == NewIndexes[i].table
             on == NewIndexes[i].on
             x == NewIndexes[i].index
  <2>1. \A c \in on : ColumnThere(4600 + i, t, c) /\ ~MayText(4600 + i, t, c)
      BY <1>2, <1>3, <1>4
  <2>2. \A k \in 1..27 : NewIndexes[k].index = x => k = i
    <3> SUFFICES ASSUME NEW k \in 1..27, NewIndexes[k].index = x PROVE k = i
        OBVIOUS
    <3>1. k \in 1..28
        OBVIOUS
    <3>2. Place(NewIndexes[k].index) = k /\ Place(NewIndexes[i].index) = i
        BY <3>1, PlaceIs
    <3> QED
        BY <3>2
  <2>3. NamedAt(x) <= 4600 + i
      BY OldIndexesAre
  <2>4. NewIndexes[i] = AddIndex(t, on, x)
      BY <1>1
  <2> HIDE DEF t, on, x
  <2>5. UpFine(4600 + i, IfNeeded(AddIndex(t, on, x)))
      BY <2>1, <2>2, <2>3, <2>4, IndexedUp
  <2> QED
      BY <2>4, <2>5
<1>6. \A i \in 1..28 : DownFine(4601, RemoveIndex(NewIndexes[i].table, RemovedIndex(NewIndexes[i].index)))
    BY Downs
<1>7. DOMAIN NewIndexes = 1..28
    BY NewIndexesIs
<1>8. DOMAIN up = 1..28 /\ DOMAIN down = 1..28
    BY <1>7
<1>9. Len(up) = 28 /\ Len(down) = 28
  <2>1. up = [i \in 1..28 |-> up[i]] /\ down = [i \in 1..28 |-> down[i]]
      BY <1>7
  <2> HIDE DEF up, down
  <2> QED
      BY <2>1, <1>8, ListOf28
<1>10. \A i \in 1..28 : up[i] = IfNeeded(NewIndexes[i])
                        /\ down[i] = RemoveIndex(NewIndexes[i].table, RemovedIndex(NewIndexes[i].index))
    BY <1>7
<1> HIDE DEF up, down
<1>11. AllUp(4600, up) /\ AllDown(4601, down)
    BY <1>5, <1>6, <1>9, <1>10 DEF AllUp, AllDown
<1>12. add_indexes_to_tables.up = up /\ add_indexes_to_tables.down = down
    BY DEF add_indexes_to_tables, Migration, up, down
<1>13. 100 * 46 = 4600 /\ 100 * 46 + 1 = 4601 /\ Len(up) \in Nat /\ Len(up) >= 1 /\ Len(up) <= 98
    BY <1>9
<1> QED
    BY <1>11, <1>12, <1>13 DEF MigrationFine

LEMMA EventsFine == MigrationFine(51, update_blockchain_events)
<1> DEFINE t == "blockchain_event"
<1>1. /\ GoneAt(t, "blockchain_id") = 5101 /\ GoneAt(t, "block") = 5103
      /\ FromAt(t, "blockchain_id") = 1401 /\ FromAt(t, "block") = 1401
      /\ NotBefore(t, "blockchain") = 5101 /\ NotBefore(t, "block_number") = 5103
      /\ NotBefore(t, "transaction_index") = 5104 /\ NotBefore(t, "log_index") = 5105
      /\ NotBefore(t, "contract_address") = 5106 /\ Never = 100000
    BY GroundColumns
<1>2. /\ AddedAt(t, "blockchain") = 5101 /\ AddedAt(t, "block_number") = 5103
      /\ AddedAt(t, "transaction_index") = 5104 /\ AddedAt(t, "log_index") = 5105
      /\ AddedAt(t, "contract_address") = 5106
    BY GroundColumns
<1>3. AddedAt(t, "blockchain_id") = Never /\ AddedAt(t, "block") = Never
    BY AddedAtIs
<1>4. \A c \in {"blockchain", "block_number", "transaction_index", "log_index", "contract_address"} :
          GoneAt(t, c) = Never
    BY GoneAtIs
<1>5. \A c \in {"blockchain_id", "block", "blockchain", "block_number", "transaction_index", "log_index",
                "contract_address"} : c \notin BaseOf(t)
    BY BaseOfIs
<1>6. MayAsk(t, "blockchain") /\ MayAsk(t, "block_number") /\ MayAsk(t, "block") /\ MayAsk(t, "blockchain_id")
    BY <1>1, <1>2 DEF MayAsk
<1>7. \A p : ~MayText(p, t, "blockchain_id") /\ ~MayText(p, t, "block")
    BY DEF MayText
<1> DEFINE s1 == RenameColumn(t, "blockchain_id", "blockchain")
           s2 == ChangeColumn(t, May({"block"}))
           s3 == RenameColumn(t, "block", "block_number")
           s4 == AddColumn(t, May({"transaction_index"}))
           s5 == AddColumn(t, May({"log_index"}))
           s6 == AddColumn(t, May({"contract_address"}))
<1>8. UpFine(5101, s1)
  <2>1. ColumnThere(5101, t, "blockchain_id")
      BY <1>1, ThereFrom
  <2> QED
      BY <2>1, <1>1, <1>3, <1>4, <1>5, <1>6, <1>7, LeftUp
<1>9. UpFine(5102, s2)
  <2>1. ColumnThere(5102, t, "block")
      BY <1>1, ThereFrom
  <2>2. \A d \in May({"block"}) : "value" \notin d[2] /\ "text" \notin d[2]
      BY DEF May
  <2>3. \A c \in Names(May({"block"})) : ColumnThere(5102, t, c)
      BY <2>1, NamesAre
  <2> QED
      BY <2>2, <2>3, ChangedUp
<1>10. UpFine(5103, s3)
  <2>1. ColumnThere(5103, t, "block")
      BY <1>1, ThereFrom
  <2> QED
      BY <2>1, <1>1, <1>3, <1>4, <1>5, <1>6, <1>7, LeftUp
<1>11. ASSUME NEW p \in Nat, p # 4501, p > 1401, NEW c, NotBefore(t, c) = p, GoneAt(t, c) >= p
       PROVE  UpFine(p, AddColumn(t, May({c})))
  <2>0. MadeAt(t) < p
      BY <1>11, MadeAtIs
  <2>1. ColumnsFine(p, t, May({c})) /\ TableThere(p, t)
    <3>1. NotBefore(t, c) <= p
        BY <1>11
    <3>2. ColumnsFine(p, t, May({c}))
        BY <3>1, <1>11, OneFine
    <3> QED
        BY <2>0, <3>2, ThereFrom
  <2>2. \A x \in Names(May({c})) : p <= NotBefore(t, x)
    <3>1. Names(May({c})) = {c}
        BY NamesAre
    <3> QED
        BY <3>1, <1>11
  <2> QED
      BY <2>1, <2>2, <1>11, MadeUp
<1>12. UpFine(5104, s4) /\ UpFine(5105, s5) /\ UpFine(5106, s6)
    BY <1>1, <1>4, <1>11
<1> DEFINE d1 == RenameColumn(t, "block_number", "block")
           d3 == RenameColumn(t, "blockchain", "blockchain_id")
           d4 == RemoveColumn(t, "transaction_index")
           d5 == RemoveColumn(t, "log_index")
           d6 == RemoveColumn(t, "contract_address")
<1>13. DownFine(5101, d1) /\ DownFine(5101, d3)
    BY <1>1, <1>2, <1>5, <1>6, Downs
<1>14. DownFine(5101, s2)
    BY <1>1, ChangedFine
<1>15. DownFine(5101, d4) /\ DownFine(5101, d5) /\ DownFine(5101, d6)
    BY <1>2, <1>5, Downs
<1>16. update_blockchain_events = Migration(<<s1, s2, s3, s4, s5, s6>>, <<d1, s2, d3, d4, d5, d6>>)
    BY DEF update_blockchain_events
<1> HIDE DEF s1, s2, s3, s4, s5, s6, d1, d3, d4, d5, d6
<1>17. AllUp(5100, <<s1, s2, s3, s4, s5, s6>>) /\ AllDown(5101, <<d1, s2, d3, d4, d5, d6>>)
    BY <1>8, <1>9, <1>10, <1>12, <1>13, <1>14, <1>15, UpLists, DownLists
<1> QED
    BY <1>16, <1>17 DEF MigrationFine, Migration

LEMMA ChainsFine == MigrationFine(52, update_blockchain_table)
<1> DEFINE t == "blockchain"
           old == "blockchain_id"
<1>1. /\ GoneAt(t, old) = 5202 /\ GoneAt(t, "contract") = 5205 /\ GoneAt(t, "blockchain") = Never
      /\ FromAt(t, old) = 1601 /\ FromAt(t, "contract") = 1601 /\ FromAt(t, "blockchain") = 5202
      /\ NotBefore(t, "blockchain") = 5202 /\ AddedAt(t, "blockchain") = 5203 /\ Never = 100000
    BY GoneAtIs, GroundColumns
<1>2. AddedAt(t, old) = Never /\ AddedAt(t, "contract") = Never
    BY AddedAtIs
<1>3. BaseOf(t) = {"last_checked_block", "last_checked_timestamp"} /\ MadeAt(t) = 1601
    BY BaseOfIs, MadeAtIs
<1>4. MayAsk(t, "blockchain") /\ MayAsk(t, old) /\ MayAsk(t, "contract")
    BY <1>1 DEF MayAsk
<1>5. \A p : ~MayText(p, t, old)
    BY DEF MayText
<1> DEFINE s1 == DescribeTable(t)
           s2 == IfNeeded(RenameColumn(t, old, "blockchain"))
           s3 == Query(t, {"blockchain", "last_checked_block", "last_checked_timestamp"})
           s4 == Query(t, {"blockchain"})
           s5 == RemoveColumn(t, "contract")
           d1 == RenameColumn(t, "blockchain", old)
           d2 == AddColumn(t, Must({"contract"}))
           d3 == Query(t, {old, "contract"})
<1>6. UpFine(5201, s1)
    BY <1>3, QueriedUp DEF DescribeTable
<1>7. UpFine(5202, s2)
    BY <1>1, <1>2, <1>3, <1>4, <1>5, LeftUp
<1>8. UpFine(5203, s3) /\ UpFine(5204, s4)
  <2>1. /\ ColumnThere(5203, t, "blockchain") /\ ColumnThere(5204, t, "blockchain")
        /\ ColumnThere(5203, t, "last_checked_block") /\ ColumnThere(5203, t, "last_checked_timestamp")
        /\ TableThere(5203, t) /\ TableThere(5204, t)
      BY <1>1, <1>3, ThereFrom
  <2> QED
      BY <2>1, AskedUp
<1>9. UpFine(5205, s5)
  <2>1. ColumnThere(5205, t, "contract")
      BY <1>1, ThereFrom
  <2> QED
      BY <2>1, <1>1, <1>2, <1>3, LeftUp
<1>10. DownFine(5201, d1) /\ DownFine(5201, d3)
    BY <1>1, <1>3, <1>4, Downs
<1>11. DownFine(5201, d2)
    BY <1>1, <1>4, ChangedFine
<1>12. update_blockchain_table = Migration(<<s1, s2, s3, s4, s5>>, <<d1, d2, d3>>)
    BY DEF update_blockchain_table
<1> HIDE DEF s1, s2, s3, s4, s5, d1, d2, d3
<1>13. AllUp(5200, <<s1, s2, s3, s4, s5>>) /\ AllDown(5201, <<d1, d2, d3>>)
    BY <1>6, <1>7, <1>8, <1>9, <1>10, <1>11, UpLists, DownLists
<1> QED
    BY <1>12, <1>13 DEF MigrationFine, Migration

LEMMA AskFine == MigrationFine(55, rename_ask)
<1> DEFINE t == "finality"
           u == "finality_response"
<1>1. /\ MadeAt(t) = 5801 /\ MadeAt(u) = 5601 /\ MadeAt("ask") = 5501 /\ MadeAt("ask_response") = 5502
      /\ TableFrom(t) = 5301 /\ TableFrom(u) = 5401 /\ TableUntil(t) = 5501 /\ TableUntil(u) = 5502
      /\ TableFrom("ask") = 5501 /\ TableFrom("ask_response") = 5502
    BY MadeAtIs, TableFromIs
<1>2. TableThere(5501, t) /\ TableThere(5502, u)
    BY <1>1 DEF TableThere, StandsAt
<1>3. \A c : FromAt(t, c) = Never /\ FromAt(u, c) = Never
    BY DEF FromAt
<1>4. /\ <<t, "ask">> \in Asking /\ <<u, "ask_response">> \in Asking
      /\ <<"ask", t>> \in Asking /\ <<"ask_response", u>> \in Asking
    BY DEF Asking
<1>5. UpFine(5501, RenameTable(t, "ask")) /\ UpFine(5502, RenameTable(u, "ask_response"))
    BY <1>1, <1>2, <1>3, <1>4, TableUp
<1>6. DownFine(5501, RenameTable("ask", t)) /\ DownFine(5501, RenameTable("ask_response", u))
    BY <1>1, <1>4, Downs
<1> QED
    BY <1>5, <1>6, UpLists, DownLists DEF MigrationFine, Migration, rename_ask

LEMMA FinalityStatusFine == MigrationFine(57, create_finality_status)
<1> DEFINE t == "finality_status"
           a == {"operation_id"}
           b == {"id", "ual", "peer_id"}
           columns == Must(a) \cup May(b) \cup Times
           x == "finality_status_ual_peer_id_uk"
<1>1. ColumnsFine(5701, t, Must(a)) /\ ColumnsFine(5701, t, May(b)) /\ ColumnsFine(5701, t, Times)
  <2>1. /\ a \subseteq BaseOf(t)
        /\ "role_id" \notin a
        /\ b \subseteq BaseOf(t)
        /\ {"created_at", "updated_at"} \subseteq BaseOf(t)
      BY BaseOfIs
  <2>2. 5701 \in Nat /\ 5701 <= Never
      BY DEF Never
  <2> QED
      BY <2>1, <2>2, NamesFine DEF Times
<1>2. ColumnsFine(5701, t, columns)
    BY <1>1, JoinFine
<1>3. BaseOf(t) \subseteq Names(columns)
    BY BaseOfIs, NamesAre DEF Times
<1> HIDE DEF columns
<1>4. UpFine(5701, CreateTable(t, columns))
    BY <1>2, <1>3, MadeUp, MadeAtIs, TableFromIs DEF CreateTable
<1>5. UpFine(5702, AddIndex(t, {"ual", "peer_id"}, x))
  <2>1. \A c \in {"ual", "peer_id"} : ColumnThere(5702, t, c)
      BY ThereFrom, MadeAtIs, BaseOfIs
  <2>2. \A c \in {"ual", "peer_id"} : ~MayText(5702, t, c)
      BY DEF MayText
  <2>3. NamedAt(x) = 5702 /\ \A i \in 1..27 : NewIndexes[i].index # x
      BY OldIndexesAre DEF OldIndexes
  <2> QED
      BY <2>1, <2>2, <2>3, IndexedUp
<1>6. DownFine(5701, DropTable(t))
    BY Downs, MadeAtIs
<1>7. create_finality_status = Migration(<<CreateTable(t, columns), AddIndex(t, {"ual", "peer_id"}, x)>>,
                                         <<DropTable(t)>>)
    BY DEF create_finality_status, columns
<1> QED
    BY <1>4, <1>5, <1>6, <1>7, UpLists, DownLists DEF MigrationFine, Migration

LEMMA EachMigration ==
    /\ DatabaseMigrations[1] = create_commands
    /\ DatabaseMigrations[2] = create_operation_ids
    /\ DatabaseMigrations[3] = create_publish
    /\ DatabaseMigrations[4] = create_publish_response
    /\ DatabaseMigrations[5] = create_get
    /\ DatabaseMigrations[6] = create_get_response
    /\ DatabaseMigrations[7] = create_event
    /\ DatabaseMigrations[8] = create_ability
    /\ DatabaseMigrations[9] = create_role
    /\ DatabaseMigrations[10] = create_user
    /\ DatabaseMigrations[11] = create_token
    /\ DatabaseMigrations[12] = create_role_ability
    /\ DatabaseMigrations[13] = add_predefined_auth_entities
    /\ DatabaseMigrations[14] = create_blockchain_event
    /\ DatabaseMigrations[15] = create_shard
    /\ DatabaseMigrations[16] = create_blockchain
    /\ DatabaseMigrations[17] = update_publish_add_agreement_data
    /\ DatabaseMigrations[18] = update_shard_types
    /\ DatabaseMigrations[19] = update_commands_types
    /\ DatabaseMigrations[20] = update_event_types
    /\ DatabaseMigrations[21] = add_abilities
    /\ DatabaseMigrations[22] = create_update
    /\ DatabaseMigrations[23] = update_publish_remove_agreement_data
    /\ DatabaseMigrations[24] = create_update_response
    /\ DatabaseMigrations[25] = update_command_period_type
    /\ DatabaseMigrations[26] = create_service_agreements
    /\ DatabaseMigrations[27] = add_blockchain_event_index
    /\ DatabaseMigrations[28] = event_add_blockchain_id
    /\ DatabaseMigrations[29] = update_abilities
    /\ DatabaseMigrations[30] = update_blockchain_id
    /\ DatabaseMigrations[31] = remove_blockchain_info
    /\ DatabaseMigrations[32] = shard_add_sha256blobl
    /\ DatabaseMigrations[33] = remove_sha256Blob
    /\ DatabaseMigrations[34] = add_service_agreement_data_source
    /\ DatabaseMigrations[35] = create_paranet
    /\ DatabaseMigrations[36] = create_missed_paranet_asset
    /\ DatabaseMigrations[37] = create_publish_paranet
    /\ DatabaseMigrations[38] = create_paranet_synced_asset
    /\ DatabaseMigrations[39] = create_publish_paranet_response
    /\ DatabaseMigrations[40] = change_paranet_synced_asset_nullable
    /\ DatabaseMigrations[41] = add_error_message
    /\ DatabaseMigrations[42] = remove_knowledge_asset_id
    /\ DatabaseMigrations[43] = paranet_synced_asset_optional_fileds
    /\ DatabaseMigrations[44] = add_synced_data_source
    /\ DatabaseMigrations[45] = change_data_source_col_type
    /\ DatabaseMigrations[46] = add_indexes_to_tables
    /\ DatabaseMigrations[47] = rename_keyword_column_to_datasetroot
    /\ DatabaseMigrations[48] = add_commands_priority
    /\ DatabaseMigrations[49] = add_commands_is_blocking
    /\ DatabaseMigrations[50] = remove_datasetroot_response_table
    /\ DatabaseMigrations[51] = update_blockchain_events
    /\ DatabaseMigrations[52] = update_blockchain_table
    /\ DatabaseMigrations[53] = create_finality
    /\ DatabaseMigrations[54] = create_finality_response
    /\ DatabaseMigrations[55] = rename_ask
    /\ DatabaseMigrations[56] = create_finality_response_again
    /\ DatabaseMigrations[57] = create_finality_status
    /\ DatabaseMigrations[58] = create_finality_again
    /\ DatabaseMigrations[59] = add_min_acks_reached_column
    /\ DatabaseMigrations[60] = prune_commands
<1>1. /\ DatabaseMigrations[1] = create_commands
      /\ DatabaseMigrations[2] = create_operation_ids
      /\ DatabaseMigrations[3] = create_publish
      /\ DatabaseMigrations[4] = create_publish_response
      /\ DatabaseMigrations[5] = create_get
      /\ DatabaseMigrations[6] = create_get_response
      /\ DatabaseMigrations[7] = create_event
      /\ DatabaseMigrations[8] = create_ability
      /\ DatabaseMigrations[9] = create_role
      /\ DatabaseMigrations[10] = create_user
    BY DEF DatabaseMigrations
<1>2. /\ DatabaseMigrations[11] = create_token
      /\ DatabaseMigrations[12] = create_role_ability
      /\ DatabaseMigrations[13] = add_predefined_auth_entities
      /\ DatabaseMigrations[14] = create_blockchain_event
      /\ DatabaseMigrations[15] = create_shard
      /\ DatabaseMigrations[16] = create_blockchain
      /\ DatabaseMigrations[17] = update_publish_add_agreement_data
      /\ DatabaseMigrations[18] = update_shard_types
      /\ DatabaseMigrations[19] = update_commands_types
      /\ DatabaseMigrations[20] = update_event_types
    BY DEF DatabaseMigrations
<1>3. /\ DatabaseMigrations[21] = add_abilities
      /\ DatabaseMigrations[22] = create_update
      /\ DatabaseMigrations[23] = update_publish_remove_agreement_data
      /\ DatabaseMigrations[24] = create_update_response
      /\ DatabaseMigrations[25] = update_command_period_type
      /\ DatabaseMigrations[26] = create_service_agreements
      /\ DatabaseMigrations[27] = add_blockchain_event_index
      /\ DatabaseMigrations[28] = event_add_blockchain_id
      /\ DatabaseMigrations[29] = update_abilities
      /\ DatabaseMigrations[30] = update_blockchain_id
    BY DEF DatabaseMigrations
<1>4. /\ DatabaseMigrations[31] = remove_blockchain_info
      /\ DatabaseMigrations[32] = shard_add_sha256blobl
      /\ DatabaseMigrations[33] = remove_sha256Blob
      /\ DatabaseMigrations[34] = add_service_agreement_data_source
      /\ DatabaseMigrations[35] = create_paranet
      /\ DatabaseMigrations[36] = create_missed_paranet_asset
      /\ DatabaseMigrations[37] = create_publish_paranet
      /\ DatabaseMigrations[38] = create_paranet_synced_asset
      /\ DatabaseMigrations[39] = create_publish_paranet_response
      /\ DatabaseMigrations[40] = change_paranet_synced_asset_nullable
    BY DEF DatabaseMigrations
<1>5. /\ DatabaseMigrations[41] = add_error_message
      /\ DatabaseMigrations[42] = remove_knowledge_asset_id
      /\ DatabaseMigrations[43] = paranet_synced_asset_optional_fileds
      /\ DatabaseMigrations[44] = add_synced_data_source
      /\ DatabaseMigrations[45] = change_data_source_col_type
      /\ DatabaseMigrations[46] = add_indexes_to_tables
      /\ DatabaseMigrations[47] = rename_keyword_column_to_datasetroot
      /\ DatabaseMigrations[48] = add_commands_priority
      /\ DatabaseMigrations[49] = add_commands_is_blocking
      /\ DatabaseMigrations[50] = remove_datasetroot_response_table
    BY DEF DatabaseMigrations
<1>6. /\ DatabaseMigrations[51] = update_blockchain_events
      /\ DatabaseMigrations[52] = update_blockchain_table
      /\ DatabaseMigrations[53] = create_finality
      /\ DatabaseMigrations[54] = create_finality_response
      /\ DatabaseMigrations[55] = rename_ask
      /\ DatabaseMigrations[56] = create_finality_response_again
      /\ DatabaseMigrations[57] = create_finality_status
      /\ DatabaseMigrations[58] = create_finality_again
      /\ DatabaseMigrations[59] = add_min_acks_reached_column
      /\ DatabaseMigrations[60] = prune_commands
    BY DEF DatabaseMigrations
<1> QED
    BY <1>1, <1>2, <1>3, <1>4, <1>5, <1>6

LEMMA EveryMigrationFine == \A k \in 1..60 : MigrationFine(k, DatabaseMigrations[k])
<1>1. /\ MigrationFine(1, create_commands)
      /\ MigrationFine(2, create_operation_ids)
      /\ MigrationFine(3, create_publish)
      /\ MigrationFine(4, create_publish_response)
      /\ MigrationFine(5, create_get)
      /\ MigrationFine(6, create_get_response)
      /\ MigrationFine(7, create_event)
      /\ MigrationFine(8, create_ability)
      /\ MigrationFine(9, create_role)
      /\ MigrationFine(10, create_user)
    BY CommandsFine, OperationIdsFine, OperationsFine, ResponsesFine, EventFine, AbilityFine,
       RoleFine, UserFine
<1>2. /\ MigrationFine(11, create_token)
      /\ MigrationFine(12, create_role_ability)
      /\ MigrationFine(13, add_predefined_auth_entities)
      /\ MigrationFine(14, create_blockchain_event)
      /\ MigrationFine(15, create_shard)
      /\ MigrationFine(16, create_blockchain)
      /\ MigrationFine(17, update_publish_add_agreement_data)
      /\ MigrationFine(18, update_shard_types)
      /\ MigrationFine(19, update_commands_types)
      /\ MigrationFine(20, update_event_types)
    BY TokenFine, RoleAbilityFine, QueriesFine, BlockchainEventFine, ShardFine, BlockchainFine,
       AgreementsFine, ChangesFine
<1>3. /\ MigrationFine(21, add_abilities)
      /\ MigrationFine(22, create_update)
      /\ MigrationFine(23, update_publish_remove_agreement_data)
      /\ MigrationFine(24, create_update_response)
      /\ MigrationFine(25, update_command_period_type)
      /\ MigrationFine(26, create_service_agreements)
      /\ MigrationFine(27, add_blockchain_event_index)
      /\ MigrationFine(28, event_add_blockchain_id)
      /\ MigrationFine(29, update_abilities)
      /\ MigrationFine(30, update_blockchain_id)
    BY AbilitiesFine, OperationsFine, AgreementsFine, ResponsesFine, ChangesFine,
       ServiceAgreementsFine, EventIndexFine, AddsColumnsFine, QueriesFine
<1>4. /\ MigrationFine(31, remove_blockchain_info)
      /\ MigrationFine(32, shard_add_sha256blobl)
      /\ MigrationFine(33, remove_sha256Blob)
      /\ MigrationFine(34, add_service_agreement_data_source)
      /\ MigrationFine(35, create_paranet)
      /\ MigrationFine(36, create_missed_paranet_asset)
      /\ MigrationFine(37, create_publish_paranet)
      /\ MigrationFine(38, create_paranet_synced_asset)
      /\ MigrationFine(39, create_publish_paranet_response)
      /\ MigrationFine(40, change_paranet_synced_asset_nullable)
    BY QueriesFine, ShardBlobFine, AddsColumnsFine, ParanetFine, MissedParanetAssetFine,
       OperationsFine, SyncedAssetFine, ResponsesFine, ChangesFine
<1>5. /\ MigrationFine(41, add_error_message)
      /\ MigrationFine(42, remove_knowledge_asset_id)
      /\ MigrationFine(43, paranet_synced_asset_optional_fileds)
      /\ MigrationFine(44, add_synced_data_source)
      /\ MigrationFine(45, change_data_source_col_type)
      /\ MigrationFine(46, add_indexes_to_tables)
      /\ MigrationFine(47, rename_keyword_column_to_datasetroot)
      /\ MigrationFine(48, add_commands_priority)
      /\ MigrationFine(49, add_commands_is_blocking)
      /\ MigrationFine(50, remove_datasetroot_response_table)
    BY AddsColumnsFine, KnowledgeAssetFine, ChangesFine, DataSourceFine, NewIndexesFine,
       DatasetRootFine
<1>6. /\ MigrationFine(51, update_blockchain_events)
      /\ MigrationFine(52, update_blockchain_table)
      /\ MigrationFine(53, create_finality)
      /\ MigrationFine(54, create_finality_response)
      /\ MigrationFine(55, rename_ask)
      /\ MigrationFine(56, create_finality_response_again)
      /\ MigrationFine(57, create_finality_status)
      /\ MigrationFine(58, create_finality_again)
      /\ MigrationFine(59, add_min_acks_reached_column)
      /\ MigrationFine(60, prune_commands)
    BY EventsFine, ChainsFine, OperationsFine, ResponsesFine, AskFine, FinalityStatusFine,
       AddsColumnsFine, QueriesFine
<1>7. \A k \in 1..10 : MigrationFine(k, DatabaseMigrations[k])
    BY <1>1, EachMigration
<1>8. \A k \in 11..20 : MigrationFine(k, DatabaseMigrations[k])
    BY <1>2, EachMigration
<1>9. \A k \in 21..30 : MigrationFine(k, DatabaseMigrations[k])
    BY <1>3, EachMigration
<1>10. \A k \in 31..40 : MigrationFine(k, DatabaseMigrations[k])
    BY <1>4, EachMigration
<1>11. \A k \in 41..50 : MigrationFine(k, DatabaseMigrations[k])
    BY <1>5, EachMigration
<1>12. \A k \in 51..60 : MigrationFine(k, DatabaseMigrations[k])
    BY <1>6, EachMigration
<1> QED
    BY <1>7, <1>8, <1>9, <1>10, <1>11, <1>12

-----------------------------------------------------------------------------
(* Every fact is made by the statement at its position.                     *)

MakesAt(m, n, t) == n <= Len(m.up) /\ MakesTable(m.up[n], t)
(* A column comes with its table, is added, or is what another is called now. *)
ComesWith(s, t, c) == s.does = "create" /\ s.table = t /\ c \in Names(s.columns)
Brings(s, t, c) ==
    /\ s.table = t
    /\ (s.does = "add" /\ c \in Names(s.columns)) \/ (s.does = "rename" /\ s.to = c)
ComesAt(m, n, t, c) == n <= Len(m.up) /\ ComesWith(m.up[n], t, c)
BringsAt(m, n, t, c) == n <= Len(m.up) /\ Brings(m.up[n], t, c)
TakesAway(m, n, t, c) == n <= Len(m.up) /\ Leaves(Inner(m.up[n]), t, c)

LEMMA FirstOnes ==
    /\ \A up, down : Migration(up, down).up = up
    /\ \A a : Len(<<a>>) = 1 /\ <<a>>[1] = a
    /\ \A a, b : Len(<<a, b>>) = 2 /\ <<a, b>>[1] = a /\ <<a, b>>[2] = b
    /\ \A t, columns : Len(Creates(t, columns).up) = 1 /\ Creates(t, columns).up[1] = CreateTable(t, columns)
    /\ \A t, c, asked : /\ Len(AddsColumn(t, c, asked).up) = 1
                        /\ AddsColumn(t, c, asked).up[1] = AddColumn(t, {<<c, asked>>})
BY DEF Migration, Creates, AddsColumn

LEMMA MakersAre ==
    /\ \A t, columns, others : MakesTable(CreateTableFor(t, columns, others), t)
    /\ \A t, columns : MakesTable(CreateTable(t, columns), t)
    /\ \A t, u : MakesTable(RenameTable(t, u), u)
    /\ \A t, columns, c : c \in Names(columns) => ComesWith(CreateTable(t, columns), t, c)
    /\ \A t, c, d : d[1] = c => Brings(AddColumn(t, {d}), t, c)
    /\ \A t, c : Brings(AddColumn(t, May({c})), t, c)
    /\ \A t, c, to : Brings(RenameColumn(t, c, to), t, to)
    /\ \A t, c, to : Leaves(Inner(RenameColumn(t, c, to)), t, c) /\ Leaves(Inner(IfNeeded(RenameColumn(t, c, to))), t, c)
    /\ \A t, c : Leaves(Inner(RemoveColumn(t, c)), t, c)
<1>1. /\ \A t, columns, others : MakesTable(CreateTableFor(t, columns, others), t)
      /\ \A t, columns : MakesTable(CreateTable(t, columns), t)
      /\ \A t, u : MakesTable(RenameTable(t, u), u)
    BY DEF MakesTable, CreateTableFor, CreateTable, RenameTable
<1>2. \A t, columns, c : c \in Names(columns) => ComesWith(CreateTable(t, columns), t, c)
    BY DEF ComesWith, CreateTable, CreateTableFor
<1>3. \A t, columns, c : c \in Names(columns) => Brings(AddColumn(t, columns), t, c)
    BY DEF Brings, AddColumn
<1>4. \A c, d : d[1] = c => c \in Names({d})
    BY NamesIs
<1>5. \A c : c \in Names(May({c}))
    BY NamesAre
<1>6. /\ \A t, c, d : d[1] = c => Brings(AddColumn(t, {d}), t, c)
      /\ \A t, c : Brings(AddColumn(t, May({c})), t, c)
    BY <1>3, <1>4, <1>5
<1>7. \A t, c, to : Brings(RenameColumn(t, c, to), t, to)
    BY DEF Brings, RenameColumn
<1>8. \A t, c, to : Leaves(Inner(RenameColumn(t, c, to)), t, c)
    BY DEF Leaves, Inner, RenameColumn
<1>9. \A t, c, to : Leaves(Inner(IfNeeded(RenameColumn(t, c, to))), t, c)
    BY DEF Leaves, Inner, RenameColumn, IfNeeded
<1>10. \A t, c : Leaves(Inner(RemoveColumn(t, c)), t, c)
    BY DEF Leaves, Inner, RemoveColumn
<1> QED
    BY <1>1, <1>2, <1>6, <1>7, <1>8, <1>9, <1>10

LEMMA MakersAt ==
    /\ \A t, columns : MakesAt(Creates(t, columns), 1, t)
    /\ \A t, columns, others, down : MakesAt(Migration(<<CreateTableFor(t, columns, others)>>, down), 1, t)
    /\ \A t, columns, down : MakesAt(Migration(<<CreateTable(t, columns)>>, down), 1, t)
    /\ \A t, columns, c : c \in Names(columns) => ComesAt(Creates(t, columns), 1, t, c)
    /\ \A t, c, asked : BringsAt(AddsColumn(t, c, asked), 1, t, c)
<1>1. /\ \A t, columns : MakesAt(Creates(t, columns), 1, t)
      /\ \A t, columns, c : c \in Names(columns) => ComesAt(Creates(t, columns), 1, t, c)
    BY FirstOnes, MakersAre DEF MakesAt, ComesAt
<1>2. \A s, down : Len(Migration(<<s>>, down).up) = 1 /\ Migration(<<s>>, down).up[1] = s
    BY FirstOnes
<1>3. /\ \A t, columns, others, down : MakesAt(Migration(<<CreateTableFor(t, columns, others)>>, down), 1, t)
      /\ \A t, columns, down : MakesAt(Migration(<<CreateTable(t, columns)>>, down), 1, t)
    BY <1>2, MakersAre DEF MakesAt
<1>4. \A t, c, asked : BringsAt(AddsColumn(t, c, asked), 1, t, c)
  <2> TAKE t, c, asked
  <2> DEFINE d == <<c, asked>>
             s == AddColumn(t, {d})
  <2>1. Len(AddsColumn(t, c, asked).up) = 1 /\ AddsColumn(t, c, asked).up[1] = s
      BY FirstOnes
  <2>2. d[1] = c
      OBVIOUS
  <2> HIDE DEF d
  <2>3. Brings(s, t, c)
      BY <2>2, MakersAre
  <2> HIDE DEF s
  <2> QED
      BY <2>1, <2>3 DEF BringsAt
<1> QED
    BY <1>1, <1>3, <1>4

LEMMA EventsStatements ==
    /\ Len(update_blockchain_events.up) = 6
    /\ update_blockchain_events.up[1] = RenameColumn("blockchain_event", "blockchain_id", "blockchain")
    /\ update_blockchain_events.up[3] = RenameColumn("blockchain_event", "block", "block_number")
    /\ update_blockchain_events.up[4] = AddColumn("blockchain_event", May({"transaction_index"}))
    /\ update_blockchain_events.up[5] = AddColumn("blockchain_event", May({"log_index"}))
    /\ update_blockchain_events.up[6] = AddColumn("blockchain_event", May({"contract_address"}))
BY DEF update_blockchain_events, Migration

LEMMA TableStatements ==
    /\ Len(update_blockchain_table.up) = 5
    /\ update_blockchain_table.up[2] = IfNeeded(RenameColumn("blockchain", "blockchain_id", "blockchain"))
    /\ update_blockchain_table.up[3] =
          Query("blockchain", {"blockchain", "last_checked_block", "last_checked_timestamp"})
    /\ update_blockchain_table.up[5] = RemoveColumn("blockchain", "contract")
BY DEF update_blockchain_table, Migration

LEMMA RenameStatements ==
    /\ Len(rename_keyword_column_to_datasetroot.up) = 2
    /\ rename_keyword_column_to_datasetroot.up[1] = RenameColumn("publish_response", "keyword", "dataset_root")
    /\ rename_keyword_column_to_datasetroot.up[2] = RenameColumn("get_response", "keyword", "dataset_root")
    /\ Len(rename_ask.up) = 2 /\ rename_ask.up[1] = RenameTable("finality", "ask")
    /\ rename_ask.up[2] = RenameTable("finality_response", "ask_response")
BY DEF rename_keyword_column_to_datasetroot, rename_ask, Migration

LEMMA RemoveStatements ==
    /\ Len(remove_datasetroot_response_table.up) = 2
    /\ remove_datasetroot_response_table.up[1] = RemoveColumn("publish_response", "dataset_root")
    /\ remove_datasetroot_response_table.up[2] = RemoveColumn("get_response", "dataset_root")
    /\ Len(remove_knowledge_asset_id.up) = 1
    /\ remove_knowledge_asset_id.up[1] = RemoveColumn("missed_paranet_asset", "knowledge_asset_id")
BY DEF remove_datasetroot_response_table, remove_knowledge_asset_id, Migration

LEMMA LongerMake ==
    MakesAt(create_paranet_synced_asset, 1, "paranet_synced_asset") /\ MakesAt(create_finality_status, 1, "finality_status")
<1>1. /\ Len(create_paranet_synced_asset.up) = 6
      /\ \E columns : create_paranet_synced_asset.up[1] = CreateTable("paranet_synced_asset", columns)
    BY DEF create_paranet_synced_asset, Migration
<1>2. /\ Len(create_finality_status.up) = 2
      /\ \E columns : create_finality_status.up[1] = CreateTable("finality_status", columns)
    BY DEF create_finality_status, Migration
<1> QED
    BY <1>1, <1>2, MakersAre DEF MakesAt

LEMMA TablesGiven ==
    /\ MakesAt(DatabaseMigrations[1], 1, "commands")
    /\ MakesAt(DatabaseMigrations[2], 1, "operation_ids")
    /\ MakesAt(DatabaseMigrations[3], 1, "publish")
    /\ MakesAt(DatabaseMigrations[4], 1, "publish_response")
    /\ MakesAt(DatabaseMigrations[5], 1, "get")
    /\ MakesAt(DatabaseMigrations[6], 1, "get_response")
    /\ MakesAt(DatabaseMigrations[7], 1, "event")
    /\ MakesAt(DatabaseMigrations[8], 1, "ability")
    /\ MakesAt(DatabaseMigrations[9], 1, "role")
    /\ MakesAt(DatabaseMigrations[10], 1, "user")
    /\ MakesAt(DatabaseMigrations[11], 1, "token")
    /\ MakesAt(DatabaseMigrations[12], 1, "role_ability")
    /\ MakesAt(DatabaseMigrations[14], 1, "blockchain_event")
    /\ MakesAt(DatabaseMigrations[15], 1, "shard")
    /\ MakesAt(DatabaseMigrations[16], 1, "blockchain")
    /\ MakesAt(DatabaseMigrations[22], 1, "update")
    /\ MakesAt(DatabaseMigrations[24], 1, "update_response")
    /\ MakesAt(DatabaseMigrations[26], 1, "service_agreement")
    /\ MakesAt(DatabaseMigrations[35], 1, "paranet")
    /\ MakesAt(DatabaseMigrations[36], 1, "missed_paranet_asset")
    /\ MakesAt(DatabaseMigrations[37], 1, "publish_paranet")
    /\ MakesAt(DatabaseMigrations[38], 1, "paranet_synced_asset")
    /\ MakesAt(DatabaseMigrations[39], 1, "publish_paranet_response")
    /\ MakesAt(DatabaseMigrations[55], 1, "ask")
    /\ MakesAt(DatabaseMigrations[55], 2, "ask_response")
    /\ MakesAt(DatabaseMigrations[56], 1, "finality_response")
    /\ MakesAt(DatabaseMigrations[57], 1, "finality_status")
    /\ MakesAt(DatabaseMigrations[58], 1, "finality")
    /\ MakesAt(DatabaseMigrations[53], 1, "finality")
    /\ MakesAt(DatabaseMigrations[54], 1, "finality_response")
<1>1. /\ MakesAt(DatabaseMigrations[1], 1, "commands")
      /\ MakesAt(DatabaseMigrations[2], 1, "operation_ids")
      /\ MakesAt(DatabaseMigrations[3], 1, "publish")
      /\ MakesAt(DatabaseMigrations[4], 1, "publish_response")
      /\ MakesAt(DatabaseMigrations[5], 1, "get")
    BY EachMigration, MakersAt DEF create_commands, create_operation_ids, create_publish,
       create_publish_response, create_get
<1>2. /\ MakesAt(DatabaseMigrations[6], 1, "get_response")
      /\ MakesAt(DatabaseMigrations[7], 1, "event")
      /\ MakesAt(DatabaseMigrations[8], 1, "ability")
      /\ MakesAt(DatabaseMigrations[9], 1, "role")
      /\ MakesAt(DatabaseMigrations[10], 1, "user")
    BY EachMigration, MakersAt DEF create_get_response, create_event, create_ability, create_role,
       create_user
<1>3. /\ MakesAt(DatabaseMigrations[11], 1, "token")
      /\ MakesAt(DatabaseMigrations[12], 1, "role_ability")
      /\ MakesAt(DatabaseMigrations[14], 1, "blockchain_event")
      /\ MakesAt(DatabaseMigrations[15], 1, "shard")
      /\ MakesAt(DatabaseMigrations[16], 1, "blockchain")
    BY EachMigration, MakersAt DEF create_token, create_role_ability, create_blockchain_event,
       create_shard, create_blockchain
<1>4. /\ MakesAt(DatabaseMigrations[22], 1, "update")
      /\ MakesAt(DatabaseMigrations[24], 1, "update_response")
      /\ MakesAt(DatabaseMigrations[26], 1, "service_agreement")
      /\ MakesAt(DatabaseMigrations[35], 1, "paranet")
      /\ MakesAt(DatabaseMigrations[36], 1, "missed_paranet_asset")
    BY EachMigration, MakersAt DEF create_update, create_update_response,
       create_service_agreements, create_paranet, create_missed_paranet_asset
<1>5. /\ MakesAt(DatabaseMigrations[37], 1, "publish_paranet")
      /\ MakesAt(DatabaseMigrations[38], 1, "paranet_synced_asset")
      /\ MakesAt(DatabaseMigrations[39], 1, "publish_paranet_response")
    BY EachMigration, MakersAt, LongerMake DEF create_publish_paranet, create_publish_paranet_response
<1>9. /\ MakesAt(DatabaseMigrations[55], 1, "ask")
      /\ MakesAt(DatabaseMigrations[55], 2, "ask_response")
    BY EachMigration, RenameStatements, MakersAre DEF MakesAt
<1>6. /\ MakesAt(DatabaseMigrations[56], 1, "finality_response")
      /\ MakesAt(DatabaseMigrations[57], 1, "finality_status")
      /\ MakesAt(DatabaseMigrations[58], 1, "finality")
      /\ MakesAt(DatabaseMigrations[53], 1, "finality")
      /\ MakesAt(DatabaseMigrations[54], 1, "finality_response")
    BY EachMigration, MakersAt, LongerMake DEF create_finality_response_again,
       create_finality_again, create_finality, create_finality_response
<1> QED
    BY <1>1, <1>2, <1>3, <1>4, <1>5, <1>6, <1>9

LEMMA ColumnsGiven ==
    /\ BringsAt(DatabaseMigrations[28], 1, "event", "blockchain_id")
    /\ BringsAt(DatabaseMigrations[41], 1, "missed_paranet_asset", "error_message")
    /\ BringsAt(DatabaseMigrations[44], 1, "paranet_synced_asset", "data_source")
    /\ BringsAt(DatabaseMigrations[48], 1, "commands", "priority")
    /\ BringsAt(DatabaseMigrations[49], 1, "commands", "is_blocking")
    /\ BringsAt(DatabaseMigrations[59], 1, "operation_ids", "min_acks_reached")
    /\ BringsAt(DatabaseMigrations[51], 1, "blockchain_event", "blockchain")
    /\ BringsAt(DatabaseMigrations[51], 3, "blockchain_event", "block_number")
    /\ BringsAt(DatabaseMigrations[51], 4, "blockchain_event", "transaction_index")
    /\ BringsAt(DatabaseMigrations[51], 5, "blockchain_event", "log_index")
    /\ BringsAt(DatabaseMigrations[51], 6, "blockchain_event", "contract_address")
    /\ BringsAt(DatabaseMigrations[47], 1, "publish_response", "dataset_root")
    /\ BringsAt(DatabaseMigrations[47], 2, "get_response", "dataset_root")
    /\ ComesAt(DatabaseMigrations[4], 1, "publish_response", "keyword")
    /\ ComesAt(DatabaseMigrations[6], 1, "get_response", "keyword")
    /\ ComesAt(DatabaseMigrations[14], 1, "blockchain_event", "blockchain_id")
    /\ ComesAt(DatabaseMigrations[14], 1, "blockchain_event", "block")
    /\ ComesAt(DatabaseMigrations[16], 1, "blockchain", "blockchain_id")
    /\ ComesAt(DatabaseMigrations[16], 1, "blockchain", "contract")
    /\ ComesAt(DatabaseMigrations[36], 1, "missed_paranet_asset", "knowledge_asset_id")
<1>1. /\ BringsAt(DatabaseMigrations[28], 1, "event", "blockchain_id")
      /\ BringsAt(DatabaseMigrations[41], 1, "missed_paranet_asset", "error_message")
      /\ BringsAt(DatabaseMigrations[44], 1, "paranet_synced_asset", "data_source")
      /\ BringsAt(DatabaseMigrations[48], 1, "commands", "priority")
      /\ BringsAt(DatabaseMigrations[49], 1, "commands", "is_blocking")
      /\ BringsAt(DatabaseMigrations[59], 1, "operation_ids", "min_acks_reached")
    BY EachMigration, MakersAt DEF event_add_blockchain_id, add_error_message,
       add_synced_data_source, add_commands_priority, add_commands_is_blocking,
       add_min_acks_reached_column
<1>2. /\ BringsAt(DatabaseMigrations[51], 1, "blockchain_event", "blockchain")
      /\ BringsAt(DatabaseMigrations[51], 3, "blockchain_event", "block_number")
      /\ BringsAt(DatabaseMigrations[51], 4, "blockchain_event", "transaction_index")
      /\ BringsAt(DatabaseMigrations[51], 5, "blockchain_event", "log_index")
      /\ BringsAt(DatabaseMigrations[51], 6, "blockchain_event", "contract_address")
    BY EachMigration, EventsStatements, MakersAre DEF BringsAt
<1>3. /\ BringsAt(DatabaseMigrations[47], 1, "publish_response", "dataset_root")
      /\ BringsAt(DatabaseMigrations[47], 2, "get_response", "dataset_root")
    BY EachMigration, RenameStatements, MakersAre DEF BringsAt
<1>4. "keyword" \in Names(KeywordResponseTable)
    BY NamesAre DEF KeywordResponseTable
<1>5. /\ ComesAt(DatabaseMigrations[4], 1, "publish_response", "keyword")
      /\ ComesAt(DatabaseMigrations[6], 1, "get_response", "keyword")
    BY <1>4, EachMigration, MakersAt DEF create_publish_response, create_get_response
<1>6. /\ ComesAt(DatabaseMigrations[14], 1, "blockchain_event", "blockchain_id")
      /\ ComesAt(DatabaseMigrations[14], 1, "blockchain_event", "block")
    BY EachMigration, MakersAt, NamesAre DEF create_blockchain_event
<1>7. /\ ComesAt(DatabaseMigrations[16], 1, "blockchain", "blockchain_id")
      /\ ComesAt(DatabaseMigrations[16], 1, "blockchain", "contract")
    BY EachMigration, MakersAt, NamesAre DEF create_blockchain
<1>8. /\ ComesAt(DatabaseMigrations[36], 1, "missed_paranet_asset", "knowledge_asset_id")
    BY EachMigration, MakersAt, NamesAre DEF create_missed_paranet_asset
<1> QED
    BY <1>1, <1>2, <1>3, <1>5, <1>6, <1>7, <1>8

LEMMA ColumnsTaken ==
    /\ TakesAway(DatabaseMigrations[47], 1, "publish_response", "keyword")
    /\ TakesAway(DatabaseMigrations[47], 2, "get_response", "keyword")
    /\ TakesAway(DatabaseMigrations[50], 1, "publish_response", "dataset_root")
    /\ TakesAway(DatabaseMigrations[50], 2, "get_response", "dataset_root")
    /\ TakesAway(DatabaseMigrations[42], 1, "missed_paranet_asset", "knowledge_asset_id")
    /\ TakesAway(DatabaseMigrations[51], 1, "blockchain_event", "blockchain_id")
    /\ TakesAway(DatabaseMigrations[51], 3, "blockchain_event", "block")
    /\ TakesAway(DatabaseMigrations[52], 2, "blockchain", "blockchain_id")
    /\ TakesAway(DatabaseMigrations[52], 5, "blockchain", "contract")
<1>1. /\ TakesAway(DatabaseMigrations[47], 1, "publish_response", "keyword")
      /\ TakesAway(DatabaseMigrations[47], 2, "get_response", "keyword")
      /\ TakesAway(DatabaseMigrations[50], 1, "publish_response", "dataset_root")
      /\ TakesAway(DatabaseMigrations[50], 2, "get_response", "dataset_root")
      /\ TakesAway(DatabaseMigrations[42], 1, "missed_paranet_asset", "knowledge_asset_id")
    BY EachMigration, RenameStatements, RemoveStatements, MakersAre DEF TakesAway
<1>2. /\ TakesAway(DatabaseMigrations[51], 1, "blockchain_event", "blockchain_id")
      /\ TakesAway(DatabaseMigrations[51], 3, "blockchain_event", "block")
    BY EachMigration, EventsStatements, MakersAre DEF TakesAway
<1>3. /\ TakesAway(DatabaseMigrations[52], 2, "blockchain", "blockchain_id")
      /\ TakesAway(DatabaseMigrations[52], 5, "blockchain", "contract")
    BY EachMigration, TableStatements, MakersAre DEF TakesAway
<1> QED
    BY <1>1, <1>2, <1>3

LEMMA IndexesGiven ==
    /\ Len(DatabaseMigrations[46].up) = 28
    /\ \A i \in 1..28 : DatabaseMigrations[46].up[i] = IfNeeded(NewIndexes[i])
<1>1. DatabaseMigrations[46] = add_indexes_to_tables
    BY EachMigration
<1>2. DOMAIN NewIndexes = 1..28
    BY NewIndexesIs
<1>3. add_indexes_to_tables.up = [i \in 1..28 |-> IfNeeded(NewIndexes[i])]
    BY <1>2 DEF add_indexes_to_tables, Migration
<1> QED
    BY <1>1, <1>3

(* There is a statement at the position.                                     *)
Happens(v) == \E k \in 1..60 : \E n \in Nat : n >= 1 /\ n <= Len(DatabaseMigrations[k].up) /\ v = 100 * k + n
GivenAt(v, t) ==
    \E k \in 1..60 : \E n \in Nat : n >= 1 /\ MakesAt(DatabaseMigrations[k], n, t) /\ v = 100 * k + n
Brought(v, t, c) ==
    \E k \in 1..60 : \E n \in Nat : n >= 1 /\ BringsAt(DatabaseMigrations[k], n, t, c) /\ v = 100 * k + n
CameWith(v, t, c) ==
    \E k \in 1..60 : \E n \in Nat : n >= 1 /\ ComesAt(DatabaseMigrations[k], n, t, c) /\ v = 100 * k + n
TakenAway(v, t, c) ==
    \E k \in 1..60 : \E n \in Nat : n >= 1 /\ TakesAway(DatabaseMigrations[k], n, t, c) /\ v = 100 * k + n

LEMMA GiverAt ==
    /\ \A k \in 1..60 : \A n \in Nat : \A t :
          n >= 1 /\ MakesAt(DatabaseMigrations[k], n, t) => GivenAt(100 * k + n, t)
    /\ \A k \in 1..60 : \A n \in Nat : \A t, c :
          n >= 1 /\ BringsAt(DatabaseMigrations[k], n, t, c) => Brought(100 * k + n, t, c)
    /\ \A k \in 1..60 : \A n \in Nat : \A t, c :
          n >= 1 /\ TakesAway(DatabaseMigrations[k], n, t, c) => TakenAway(100 * k + n, t, c)
    /\ \A k \in 1..60 : \A n \in Nat : \A t, c :
          n >= 1 /\ ComesAt(DatabaseMigrations[k], n, t, c) => CameWith(100 * k + n, t, c)
<1>1. \A k \in 1..60 : \A n \in Nat : \A t :
          n >= 1 /\ MakesAt(DatabaseMigrations[k], n, t) => GivenAt(100 * k + n, t)
    BY DEF GivenAt
<1>2. \A k \in 1..60 : \A n \in Nat : \A t, c :
          n >= 1 /\ BringsAt(DatabaseMigrations[k], n, t, c) => Brought(100 * k + n, t, c)
    BY DEF Brought
<1>3. \A k \in 1..60 : \A n \in Nat : \A t, c :
          n >= 1 /\ TakesAway(DatabaseMigrations[k], n, t, c) => TakenAway(100 * k + n, t, c)
    BY DEF TakenAway
<1>4. \A k \in 1..60 : \A n \in Nat : \A t, c :
          n >= 1 /\ ComesAt(DatabaseMigrations[k], n, t, c) => CameWith(100 * k + n, t, c)
    BY DEF CameWith
<1> QED
    BY <1>1, <1>2, <1>3, <1>4

LEMMA GiversHappen ==
    /\ \A v, t : GivenAt(v, t) => Happens(v)
    /\ \A v, t, c : Brought(v, t, c) \/ CameWith(v, t, c) \/ TakenAway(v, t, c) => Happens(v)
<1>1. \A v, t : GivenAt(v, t) => Happens(v)
    BY DEF GivenAt, MakesAt, Happens
<1>2. \A v, t, c : Brought(v, t, c) => Happens(v)
    BY DEF Brought, BringsAt, Happens
<1>3. \A v, t, c : TakenAway(v, t, c) => Happens(v)
    BY DEF TakenAway, TakesAway, Happens
<1>4. \A v, t, c : CameWith(v, t, c) => Happens(v)
    BY DEF CameWith, ComesAt, Happens
<1> QED
    BY <1>1, <1>2, <1>3, <1>4

LEMMA LengthsAre ==
    \A k \in 1..60 : /\ Len(DatabaseMigrations[k].up) \in Nat
                     /\ 1 <= Len(DatabaseMigrations[k].up) /\ Len(DatabaseMigrations[k].up) <= 98
BY EveryMigrationFine DEF MigrationFine

LEMMA PlacesAre ==
    \A j \in 1..60 : \A m \in Nat : m >= 1 /\ m <= Len(DatabaseMigrations[j].up) => m \in 1..98
<1> SUFFICES ASSUME NEW j \in 1..60, NEW m \in Nat, m >= 1, m <= Len(DatabaseMigrations[j].up)
             PROVE  m \in 1..98
    OBVIOUS
<1> DEFINE l == Len(DatabaseMigrations[j].up)
<1>1. l \in Nat /\ l <= 98 /\ m <= l
    BY LengthsAre
<1> HIDE DEF l
<1> QED
    BY <1>1

AtPlace(p, k, n) == k \in 1..60 /\ n \in 1..98 /\ p = 100 * k + n

LEMMA GiversHere ==
    \A p, k, n : AtPlace(p, k, n) =>
       /\ \A t : GivenAt(p, t) => MakesTable(DatabaseMigrations[k].up[n], t)
       /\ \A t, c : Brought(p, t, c) => Brings(DatabaseMigrations[k].up[n], t, c)
       /\ \A t, c : CameWith(p, t, c) => ComesWith(DatabaseMigrations[k].up[n], t, c)
       /\ \A t, c : TakenAway(p, t, c) => Leaves(Inner(DatabaseMigrations[k].up[n]), t, c)
<1> SUFFICES ASSUME NEW p, NEW k, NEW n, AtPlace(p, k, n)
             PROVE  /\ \A t : GivenAt(p, t) => MakesTable(DatabaseMigrations[k].up[n], t)
                    /\ \A t, c : Brought(p, t, c) => Brings(DatabaseMigrations[k].up[n], t, c)
                    /\ \A t, c : CameWith(p, t, c) => ComesWith(DatabaseMigrations[k].up[n], t, c)
                    /\ \A t, c : TakenAway(p, t, c) => Leaves(Inner(DatabaseMigrations[k].up[n]), t, c)
    OBVIOUS
<1>0. k \in 1..60 /\ n \in 1..98 /\ p = 100 * k + n
    BY DEF AtPlace
<1>1. \A j \in 1..60 : \A m \in Nat :
         m >= 1 /\ m <= Len(DatabaseMigrations[j].up) /\ p = 100 * j + m => k = j /\ n = m
  <2> SUFFICES ASSUME NEW j \in 1..60, NEW m \in Nat, m >= 1, m <= Len(DatabaseMigrations[j].up),
                      p = 100 * j + m
               PROVE  k = j /\ n = m
      OBVIOUS
  <2>1. m \in 1..98
      BY PlacesAre
  <2> QED
      BY <2>1, <1>0
<1>2. \A t : GivenAt(p, t) => MakesTable(DatabaseMigrations[k].up[n], t)
    BY <1>1 DEF GivenAt, MakesAt
<1>3. \A t, c : Brought(p, t, c) => Brings(DatabaseMigrations[k].up[n], t, c)
    BY <1>1 DEF Brought, BringsAt
<1>4. \A t, c : TakenAway(p, t, c) => Leaves(Inner(DatabaseMigrations[k].up[n]), t, c)
    BY <1>1 DEF TakenAway, TakesAway
<1>5. \A t, c : CameWith(p, t, c) => ComesWith(DatabaseMigrations[k].up[n], t, c)
    BY <1>1 DEF CameWith, ComesAt
<1> QED
    BY <1>2, <1>3, <1>4, <1>5

(* Nothing happens between the last statement of a migration and the next one. *)
LEMMA NothingBetween ==
    ASSUME NEW k \in 1..60, NEW v, Happens(v), v < 100 * (k + 1) + 1
    PROVE  v < 100 * k + Len(DatabaseMigrations[k].up) + 1
<1> DEFINE l == Len(DatabaseMigrations[k].up)
<1>1. PICK j \in 1..60, m \in Nat : m >= 1 /\ m <= Len(DatabaseMigrations[j].up) /\ v = 100 * j + m
    BY DEF Happens
<1>2. m <= 98
  <2> DEFINE h == Len(DatabaseMigrations[j].up)
  <2>1. h \in Nat /\ h <= 98 /\ m <= h
      BY <1>1, LengthsAre
  <2> HIDE DEF h
  <2> QED
      BY <2>1
<1>3. l \in Nat /\ (j = k => m <= l)
    BY <1>1, LengthsAre
<1> HIDE DEF l
<1>4. v = 100 * j + m /\ 100 * j + m < 100 * (k + 1) + 1 /\ m >= 1
    BY <1>1
<1>5. j <= k
    BY <1>4
<1>6. v < 100 * k + l + 1
    BY <1>2, <1>3, <1>4, <1>5
<1> QED
    BY <1>6 DEF l

LEMMA TableMakers ==
    /\ GivenAt(101, "commands")
    /\ GivenAt(201, "operation_ids")
    /\ GivenAt(301, "publish")
    /\ GivenAt(401, "publish_response")
    /\ GivenAt(501, "get")
    /\ GivenAt(601, "get_response")
    /\ GivenAt(701, "event")
    /\ GivenAt(801, "ability")
    /\ GivenAt(901, "role")
    /\ GivenAt(1001, "user")
    /\ GivenAt(1101, "token")
    /\ GivenAt(1201, "role_ability")
    /\ GivenAt(1401, "blockchain_event")
    /\ GivenAt(1501, "shard")
    /\ GivenAt(1601, "blockchain")
    /\ GivenAt(2201, "update")
    /\ GivenAt(2401, "update_response")
    /\ GivenAt(2601, "service_agreement")
    /\ GivenAt(3501, "paranet")
    /\ GivenAt(3601, "missed_paranet_asset")
    /\ GivenAt(3701, "publish_paranet")
    /\ GivenAt(3801, "paranet_synced_asset")
    /\ GivenAt(3901, "publish_paranet_response")
    /\ GivenAt(5501, "ask")
    /\ GivenAt(5502, "ask_response")
    /\ GivenAt(5601, "finality_response")
    /\ GivenAt(5701, "finality_status")
    /\ GivenAt(5801, "finality")
    /\ GivenAt(5301, "finality")
    /\ GivenAt(5401, "finality_response")
<1>1. /\ GivenAt(101, "commands")
      /\ GivenAt(201, "operation_ids")
      /\ GivenAt(301, "publish")
      /\ GivenAt(401, "publish_response")
      /\ GivenAt(501, "get")
      /\ GivenAt(601, "get_response")
    BY GiverAt, TablesGiven
<1>2. /\ GivenAt(701, "event")
      /\ GivenAt(801, "ability")
      /\ GivenAt(901, "role")
      /\ GivenAt(1001, "user")
      /\ GivenAt(1101, "token")
      /\ GivenAt(1201, "role_ability")
    BY GiverAt, TablesGiven
<1>3. /\ GivenAt(1401, "blockchain_event")
      /\ GivenAt(1501, "shard")
      /\ GivenAt(1601, "blockchain")
      /\ GivenAt(2201, "update")
      /\ GivenAt(2401, "update_response")
      /\ GivenAt(2601, "service_agreement")
    BY GiverAt, TablesGiven
<1>4. /\ GivenAt(3501, "paranet")
      /\ GivenAt(3601, "missed_paranet_asset")
      /\ GivenAt(3701, "publish_paranet")
      /\ GivenAt(3801, "paranet_synced_asset")
      /\ GivenAt(3901, "publish_paranet_response")
      /\ GivenAt(5501, "ask")
    BY GiverAt, TablesGiven
<1>5. /\ GivenAt(5502, "ask_response")
      /\ GivenAt(5601, "finality_response")
      /\ GivenAt(5701, "finality_status")
      /\ GivenAt(5801, "finality")
      /\ GivenAt(5301, "finality")
      /\ GivenAt(5401, "finality_response")
    BY GiverAt, TablesGiven
<1> QED
    BY <1>1, <1>2, <1>3, <1>4, <1>5

LEMMA ColumnMakers ==
    /\ Brought(2801, "event", "blockchain_id")
    /\ Brought(4101, "missed_paranet_asset", "error_message")
    /\ Brought(4401, "paranet_synced_asset", "data_source")
    /\ Brought(4801, "commands", "priority")
    /\ Brought(4901, "commands", "is_blocking")
    /\ Brought(5901, "operation_ids", "min_acks_reached")
    /\ Brought(5101, "blockchain_event", "blockchain")
    /\ Brought(5103, "blockchain_event", "block_number")
    /\ Brought(5104, "blockchain_event", "transaction_index")
    /\ Brought(5105, "blockchain_event", "log_index")
    /\ Brought(5106, "blockchain_event", "contract_address")
    /\ Brought(4701, "publish_response", "dataset_root")
    /\ Brought(4702, "get_response", "dataset_root")
    /\ CameWith(401, "publish_response", "keyword")
    /\ CameWith(601, "get_response", "keyword")
    /\ CameWith(1401, "blockchain_event", "blockchain_id")
    /\ CameWith(1401, "blockchain_event", "block")
    /\ CameWith(1601, "blockchain", "blockchain_id")
    /\ CameWith(1601, "blockchain", "contract")
    /\ CameWith(3601, "missed_paranet_asset", "knowledge_asset_id")
<1>1. /\ Brought(2801, "event", "blockchain_id")
      /\ Brought(4101, "missed_paranet_asset", "error_message")
      /\ Brought(4401, "paranet_synced_asset", "data_source")
      /\ Brought(4801, "commands", "priority")
      /\ Brought(4901, "commands", "is_blocking")
      /\ Brought(5901, "operation_ids", "min_acks_reached")
    BY GiverAt, ColumnsGiven
<1>2. /\ Brought(5101, "blockchain_event", "blockchain")
      /\ Brought(5103, "blockchain_event", "block_number")
      /\ Brought(5104, "blockchain_event", "transaction_index")
      /\ Brought(5105, "blockchain_event", "log_index")
      /\ Brought(5106, "blockchain_event", "contract_address")
      /\ Brought(4701, "publish_response", "dataset_root")
    BY GiverAt, ColumnsGiven
<1>3. /\ Brought(4702, "get_response", "dataset_root")
      /\ CameWith(401, "publish_response", "keyword")
      /\ CameWith(601, "get_response", "keyword")
      /\ CameWith(1401, "blockchain_event", "blockchain_id")
      /\ CameWith(1401, "blockchain_event", "block")
      /\ CameWith(1601, "blockchain", "blockchain_id")
    BY GiverAt, ColumnsGiven
<1>4. /\ CameWith(1601, "blockchain", "contract")
      /\ CameWith(3601, "missed_paranet_asset", "knowledge_asset_id")
    BY GiverAt, ColumnsGiven
<1> QED
    BY <1>1, <1>2, <1>3, <1>4

LEMMA ColumnTakers ==
    /\ TakenAway(4701, "publish_response", "keyword")
    /\ TakenAway(4702, "get_response", "keyword")
    /\ TakenAway(5001, "publish_response", "dataset_root")
    /\ TakenAway(5002, "get_response", "dataset_root")
    /\ TakenAway(4201, "missed_paranet_asset", "knowledge_asset_id")
    /\ TakenAway(5101, "blockchain_event", "blockchain_id")
    /\ TakenAway(5103, "blockchain_event", "block")
    /\ TakenAway(5202, "blockchain", "blockchain_id")
    /\ TakenAway(5205, "blockchain", "contract")
<1>1. /\ TakenAway(4701, "publish_response", "keyword")
      /\ TakenAway(4702, "get_response", "keyword")
      /\ TakenAway(5001, "publish_response", "dataset_root")
      /\ TakenAway(5002, "get_response", "dataset_root")
      /\ TakenAway(4201, "missed_paranet_asset", "knowledge_asset_id")
      /\ TakenAway(5101, "blockchain_event", "blockchain_id")
    BY GiverAt, ColumnsTaken
<1>2. /\ TakenAway(5103, "blockchain_event", "block")
      /\ TakenAway(5202, "blockchain", "blockchain_id")
      /\ TakenAway(5205, "blockchain", "contract")
    BY GiverAt, ColumnsTaken
<1> QED
    BY <1>1, <1>2

LEMMA MadeAtOf ==
    \A t, v : v = MadeAt(t) =>
       \/ t = "commands" /\ v = 101
       \/ t = "operation_ids" /\ v = 201
       \/ t = "publish" /\ v = 301
       \/ t = "publish_response" /\ v = 401
       \/ t = "get" /\ v = 501
       \/ t = "get_response" /\ v = 601
       \/ t = "event" /\ v = 701
       \/ t = "ability" /\ v = 801
       \/ t = "role" /\ v = 901
       \/ t = "user" /\ v = 1001
       \/ t = "token" /\ v = 1101
       \/ t = "role_ability" /\ v = 1201
       \/ t = "blockchain_event" /\ v = 1401
       \/ t = "shard" /\ v = 1501
       \/ t = "blockchain" /\ v = 1601
       \/ t = "update" /\ v = 2201
       \/ t = "update_response" /\ v = 2401
       \/ t = "service_agreement" /\ v = 2601
       \/ t = "paranet" /\ v = 3501
       \/ t = "missed_paranet_asset" /\ v = 3601
       \/ t = "publish_paranet" /\ v = 3701
       \/ t = "paranet_synced_asset" /\ v = 3801
       \/ t = "publish_paranet_response" /\ v = 3901
       \/ t = "ask" /\ v = 5501
       \/ t = "ask_response" /\ v = 5502
       \/ t = "finality_response" /\ v = 5601
       \/ t = "finality_status" /\ v = 5701
       \/ t = "finality" /\ v = 5801
       \/ v = Never
BY DEF MadeAt, Never

LEMMA FromAtIs ==
    \A t, c, v : v = FromAt(t, c) =>
       \/ t = "publish_response" /\ c = "keyword" /\ v = 401
       \/ t = "get_response" /\ c = "keyword" /\ v = 601
       \/ t = "blockchain_event" /\ c = "blockchain_id" /\ v = 1401
       \/ t = "blockchain_event" /\ c = "block" /\ v = 1401
       \/ t = "blockchain" /\ c = "blockchain_id" /\ v = 1601
       \/ t = "blockchain" /\ c = "contract" /\ v = 1601
       \/ t = "missed_paranet_asset" /\ c = "knowledge_asset_id" /\ v = 3601
       \/ t = "publish_response" /\ c = "dataset_root" /\ v = 4701
       \/ t = "get_response" /\ c = "dataset_root" /\ v = 4702
       \/ t = "blockchain" /\ c = "blockchain" /\ v = 5202
       \/ v = Never
BY DEF FromAt, Never

(* Who makes the facts, and ends them.                                       *)
LEMMA FactsGiven ==
    /\ \A t, v : v < Never /\ (v = MadeAt(t) \/ v = TableFrom(t)) => GivenAt(v, t)
    /\ \A t, c, v : v < Never /\ v = AddedAt(t, c) =>
          Brought(v, t, c) \/ (v = 5203 /\ t = "blockchain" /\ c = "blockchain")
    /\ \A t, c, v : v < Never /\ v = FromAt(t, c) =>
          \/ Brought(v, t, c)
          \/ CameWith(v, t, c) /\ TableFrom(t) = v
          \/ v = 5202 /\ t = "blockchain" /\ c = "blockchain"
    /\ \A t, c, v : v < Never /\ v = GoneAt(t, c) => TakenAway(v, t, c)
<1>1. \A t, v : v < Never /\ v = MadeAt(t) => GivenAt(v, t)
    BY MadeAtOf, TableMakers DEF Never
<1>2. \A t, v : v < Never /\ v = TableFrom(t) => GivenAt(v, t)
    BY <1>1, TableFromIs, TableMakers
<1>3. \A t, c, v : v < Never /\ v = AddedAt(t, c) =>
          Brought(v, t, c) \/ (v = 5203 /\ t = "blockchain" /\ c = "blockchain")
    BY AddedAtIs, ColumnMakers DEF Never
<1>4. \A t, c, v : v < Never /\ v = FromAt(t, c) =>
          \/ Brought(v, t, c)
          \/ CameWith(v, t, c) /\ TableFrom(t) = v
          \/ v = 5202 /\ t = "blockchain" /\ c = "blockchain"
    BY FromAtIs, ColumnMakers, TableFromIs, MadeAtIs DEF Never
<1>5. \A t, c, v : v < Never /\ v = GoneAt(t, c) => TakenAway(v, t, c)
    BY GoneAtIs, ColumnTakers DEF Never
<1> QED
    BY <1>1, <1>2, <1>3, <1>4, <1>5

-----------------------------------------------------------------------------
(* A statement that is run, and what is there after it.                      *)
LEMMA NewIndexesAdd ==
    /\ \A i \in 1..28 : NewIndexes[i].does = "addIndex"
    /\ \A i \in 1..28 : Inner(IfNeeded(NewIndexes[i])) = NewIndexes[i]
                        /\ IfNeeded(NewIndexes[i]).does = "ifNeeded"
                        /\ IfNeeded(NewIndexes[i]).what = NewIndexes[i]
<1>1. \A t, on, x : AddIndex(t, on, x).does = "addIndex"
    BY DEF AddIndex
<1>2. \A s : IfNeeded(s).does = "ifNeeded" /\ IfNeeded(s).what = s /\ Inner(IfNeeded(s)) = s
    BY DEF IfNeeded, Inner
<1>3. \A i \in 1..28 : NewIndexes[i].does = "addIndex"
    BY <1>1, NewIndexesIs
<1> QED
    BY <1>2, <1>3

LEMMA Applies ==
    ASSUME NEW db, Intact(db), NEW s, GoodStatement(s), Takes(db, s), NEW new, new = AfterStatement(db, s)
    PROVE  \/ Accepts(db, Inner(s)) /\ new = Applied(db, Inner(s)) /\ Effect(db, new, Inner(s))
           \/ s.does = "ifNeeded" /\ ~Needed(db, s.what) /\ new = db
<1>1. CASE s.does = "ifNeeded" /\ ~Needed(db, s.what)
    BY <1>1 DEF AfterStatement
<1>2. CASE ~(s.does = "ifNeeded" /\ ~Needed(db, s.what))
  <2>1. Accepts(db, Inner(s)) /\ new = Applied(db, Inner(s)) /\ Plain(Inner(s))
      BY <1>2 DEF Takes, AfterStatement, Inner, GoodStatement
  <2> QED
      BY <2>1, StatementEffect
<1> QED
    BY <1>1, <1>2

LEMMA StatementIs ==
    ASSUME NEW k \in 1..60, NEW n \in Nat, n >= 1, n <= Len(DatabaseMigrations[k].up)
    PROVE  /\ UpFine(100 * k + n, DatabaseMigrations[k].up[n]) /\ n \in 1..98
           /\ GoodStatement(DatabaseMigrations[k].up[n])
<1> DEFINE l == Len(DatabaseMigrations[k].up)
<1>1. l \in Nat /\ l <= 98 /\ n <= l
    BY LengthsAre
<1>2. AllUp(100 * k, DatabaseMigrations[k].up)
    BY EveryMigrationFine DEF MigrationFine
<1>3. n \in 1..98 /\ n \in 1..l
  <2> HIDE DEF l
  <2> QED
      BY <1>1
<1>4. UpFine(100 * k + n, DatabaseMigrations[k].up[n])
    BY <1>2, <1>3 DEF AllUp
<1>5. GoodStatement(DatabaseMigrations[k].up[n])
    BY <1>3, EveryMigrationGood DEF GoodMigration, AllGood
<1> QED
    BY <1>3, <1>4, <1>5

(* The index of data_source comes with its statement, if it comes at all.    *)
LEMMA LateKept ==
    ASSUME NEW db, NEW new, NEW s, Effect(db, new, s), NEW p \in Int, Orderly(p, s),
           NEW here \in Int, LateIn(db, here), NEW now \in Int, now >= here, now > p
    PROVE  LateIn(new, now)
<1> SUFFICES ASSUME NEW j \in new.indexes, IsIndex(j, 4) PROVE now > 4600
    BY DEF LateIn
<1>1. /\ NewIndexes[4].table = "paranet_synced_asset"
      /\ NewIndexes[4].index = "paranet_ual_data_source_index"
    BY NewIndexesIs DEF AddIndex
<1>2. CASE \E i \in db.indexes : SameIndex(s, i, j)
  <2>1. PICK i \in db.indexes : SameIndex(s, i, j)
      BY <1>2
  <2>2. i.index = j.index /\ (i.table = j.table \/ (s.does = "renameTable" /\ j.table = s.to))
      BY <2>1 DEF SameIndex
  <2>3. s.does = "renameTable" => s.to # "paranet_synced_asset"
      BY DEF Orderly, Asking
  <2>4. IsIndex(i, 4)
      BY <2>2, <2>3, <1>1 DEF IsIndex
  <2> QED
      BY <2>4 DEF LateIn
<1>3. CASE s.does = "addIndex" /\ j = [table |-> s.table, index |-> s.index, on |-> s.on]
  <2>1. NewIndexes[4].index = s.index
      BY <1>3 DEF IsIndex
  <2> QED
      BY <2>1, <1>3 DEF Orderly
<1> QED
    BY <1>2, <1>3 DEF Effect, IndexesCome

LEMMA WorldUp ==
    ASSUME NEW k, NEW n, NEW p, AtPlace(p, k, n), NEW s, UpFine(p, s), GoodStatement(s),
           NEW db, Intact(db), World(db, p), Takes(db, s), NEW new, new = AfterStatement(db, s)
    PROVE  World(new, p + 1)
<1>0. k \in 1..60 /\ n \in 1..98 /\ p = 100 * k + n
    BY DEF AtPlace
<1> USE <1>0
<1>1. p \in Int /\ Orderly(p, Inner(s))
    BY DEF UpFine
<1>2. CASE Effect(db, new, Inner(s))
  <2>1. Based(new) /\ AsksRight(new) /\ Indexed(new)
      BY <1>1, <1>2, WorldKept
  <2>2. LateIn(new, p + 1)
      BY <1>1, <1>2, LateKept DEF World
  <2> QED
      BY <2>1, <2>2 DEF World
<1>3. CASE new = db
    BY <1>1, <1>3 DEF World, LateIn
<1> QED
    BY <1>2, <1>3, Applies

LEMMA FactsUp ==
    ASSUME NEW k, NEW n, NEW p, AtPlace(p, k, n), NEW s, s = DatabaseMigrations[k].up[n],
           UpFine(p, s), GoodStatement(s),
           NEW db, Intact(db), World(db, p), Facts(db, p), Takes(db, s), NEW new, new = AfterStatement(db, s)
    PROVE  Facts(new, p + 1)
<1>0. k \in 1..60 /\ n \in 1..98 /\ p = 100 * k + n
    BY DEF AtPlace
<1> USE <1>0
<1>1. p \in Int /\ p < Never /\ p <= Never /\ Orderly(p, Inner(s))
    BY DEF UpFine, Never
<1>2. /\ \A t : MadeAt(t) = p => GivenAt(p, t)
      /\ \A t, c : AddedAt(t, c) = p =>
            Brought(p, t, c) \/ (p = 5203 /\ t = "blockchain" /\ c = "blockchain")
      /\ \A t, c : GoneAt(t, c) = p => TakenAway(p, t, c)
    BY <1>1, FactsGiven
<1>3. /\ \A t : GivenAt(p, t) => MakesTable(s, t)
      /\ \A t, c : Brought(p, t, c) => Brings(s, t, c)
      /\ \A t, c : TakenAway(p, t, c) => Leaves(Inner(s), t, c)
  <2>1. AtPlace(p, k, n)
      BY DEF AtPlace
  <2> QED
      BY <2>1, GiversHere
<1>4. Facts(new, p)
  <2>1. CASE Effect(db, new, Inner(s))
      BY <1>1, <2>1, FactsKept
  <2>2. CASE new = db
      BY <2>2
  <2> QED
      BY <2>1, <2>2, Applies
<1>5. ASSUME NEW t, MadeAt(t) = p PROVE t \in new.tables
  <2>1. MakesTable(s, t)
      BY <1>5, <1>2, <1>3
  <2>2. s.does # "ifNeeded" /\ Inner(s) = s
      BY <2>1 DEF MakesTable, Inner
  <2> QED
      BY <2>1, <2>2, Applies DEF Effect, TablesStay
<1>6. ASSUME NEW t, NEW c, AddedAt(t, c) = p PROVE HasColumn(new, t, c)
  <2>1. CASE Brings(s, t, c)
    <3>1. s.does # "ifNeeded" /\ Inner(s) = s /\ s.does \in {"add", "rename"}
        BY <2>1 DEF Brings, Inner
    <3>2. Effect(db, new, s)
        BY <3>1, Applies
    <3> QED
        BY <2>1, <3>1, <3>2 DEF Brings, Effect, ColumnsMade
  <2>2. CASE p = 5203 /\ t = "blockchain" /\ c = "blockchain"
    <3>1. k = 52 /\ n = 3
        BY <2>2
    <3>2. s = Query("blockchain", {"blockchain", "last_checked_block", "last_checked_timestamp"})
        BY <3>1, EachMigration, TableStatements
    <3>3. s.does = "query" /\ s.table = t /\ c \in s.on
        BY <3>2, <2>2 DEF Query
    <3>4. Accepts(db, s) /\ Effect(db, new, s)
        BY <3>3, Applies DEF Inner
    <3>5. c \in ColumnsOf(db, t)
        BY <3>3, <3>4 DEF Accepts
    <3>6. HasColumn(db, t, c) /\ ~Unmakes(s, t) /\ ~Leaves(s, t, c)
        BY <3>3, <3>5, ColumnsOfIs DEF HasColumn, Unmakes, Leaves
    <3> QED
        BY <3>4, <3>6 DEF Effect, ColumnsStay
  <2> QED
      BY <1>6, <2>1, <2>2, <1>2, <1>3
<1>7. ASSUME NEW t, NEW c, GoneAt(t, c) = p PROVE ~HasColumn(new, t, c)
  <2>1. Leaves(Inner(s), t, c)
      BY <1>7, <1>2, <1>3
  <2>2. CASE s.does = "ifNeeded" /\ ~Needed(db, s.what) /\ new = db
    <3>1. s.what.does \in {"remove", "rename"} /\ s.what.table = t /\ s.what.column = c
        BY <2>1, <2>2 DEF Leaves, Inner
    <3>2. c \notin ColumnsOf(db, t)
        BY <2>2, <3>1 DEF Needed
    <3> QED
        BY <2>2, <3>2, ColumnsOfIs DEF HasColumn
  <2>3. CASE Accepts(db, Inner(s)) /\ Effect(db, new, Inner(s))
    <3> DEFINE w == Inner(s)
    <3>1. w.does \in {"remove", "rename"} /\ w.table = t /\ w.column = c
        BY <2>1 DEF Leaves
    <3>2. w.does = "rename" => w.to # c
        BY <2>3, <3>1 DEF Accepts
    <3> HIDE DEF w
    <3>3. Effect(db, new, w) /\ Leaves(w, t, c)
        BY <2>1, <2>3 DEF w
    <3>4. ASSUME NEW x \in new.columns, x[1] = t, x[2] = c PROVE FALSE
      <4>1. ~Kept(db, w, x)
          BY <3>3, <3>4 DEF Kept
      <4>2. ~Fresh(db, w, x) /\ ~Moved(db, w, x)
          BY <3>1 DEF Fresh, Moved
      <4>3. ~Renamed(db, w, x)
          BY <3>1, <3>2, <3>4 DEF Renamed
      <4> QED
          BY <3>3, <4>1, <4>2, <4>3 DEF Effect, ColumnsCome
    <3> QED
        BY <3>4 DEF HasColumn
  <2> QED
      BY <2>2, <2>3, Applies
<1>8. ASSUME NEW i \in 1..27, 4600 + i = p PROVE IndexFact(i) \in new.indexes
  <2>1. k = 46 /\ n = i
    <3>1. 100 * k + n = 4600 + i
        BY <1>8
    <3>2. k = 46
        BY <3>1
    <3> QED
        BY <3>1, <3>2
  <2>2. s = IfNeeded(NewIndexes[i])
      BY <2>1, IndexesGiven
  <2> DEFINE w == NewIndexes[i]
  <2>3. s.does = "ifNeeded" /\ s.what = w /\ Inner(s) = w /\ w.does = "addIndex"
      BY <2>2, NewIndexesAdd
  <2>4. IndexFact(i) = [table |-> w.table, index |-> w.index, on |-> w.on]
      BY DEF IndexFact
  <2>5. w.table = NewIndexes[i].table /\ w.index = NewIndexes[i].index /\ w.on = NewIndexes[i].on
      OBVIOUS
  <2> HIDE DEF w
  <2>6. CASE ~Needed(db, w) /\ new = db
    <3>1. PICK j \in db.indexes : j.table = w.table /\ j.index = w.index
        BY <2>3, <2>6 DEF Needed, IndexesOf
    <3>2. IsIndex(j, i)
        BY <3>1, <2>5 DEF IsIndex
    <3>3. j.on = w.on
        BY <3>2, <2>5 DEF World, Indexed
    <3>4. j = [table |-> j.table, index |-> j.index, on |-> j.on]
        BY DEF Intact, Fits
    <3> QED
        BY <2>4, <2>6, <3>1, <3>3, <3>4
  <2>7. CASE Effect(db, new, w)
      BY <2>3, <2>4, <2>7 DEF Effect, IndexesStay
  <2> QED
      BY <2>3, <2>6, <2>7, Applies
<1>9. TablesMade(new, p + 1)
    BY <1>1, <1>4, <1>5, PositionsAre DEF Facts, TablesMade
<1>10. ColumnsAdded(new, p + 1)
    BY <1>1, <1>4, <1>6, PositionsAre DEF Facts, ColumnsAdded
<1>11. ColumnsGone(new, p + 1)
    BY <1>1, <1>4, <1>7, PositionsAre DEF Facts, ColumnsGone
<1>12. IndexesMade(new, p + 1)
    BY <1>1, <1>4, <1>8 DEF Facts, IndexesMade
<1> QED
    BY <1>9, <1>10, <1>11, <1>12 DEF Facts

LEMMA CleanUp ==
    ASSUME NEW k, NEW n, NEW p, AtPlace(p, k, n), NEW s, s = DatabaseMigrations[k].up[n],
           UpFine(p, s), GoodStatement(s), NEW db, Intact(db), Clean(db, p), Takes(db, s),
           NEW new, new = AfterStatement(db, s)
    PROVE  Clean(new, p + 1)
<1>0. k \in 1..60 /\ n \in 1..98 /\ p = 100 * k + n
    BY DEF AtPlace
<1> USE <1>0
<1> DEFINE q == p + 1
<1>1. p \in Nat /\ p < Never /\ Tidy(p, Inner(s))
    BY DEF UpFine, Never
<1>2. /\ \A t : TableFrom(t) = p => GivenAt(p, t)
      /\ \A t, c : FromAt(t, c) = p =>
            \/ Brought(p, t, c)
            \/ CameWith(p, t, c) /\ TableFrom(t) = p
            \/ p = 5202 /\ t = "blockchain" /\ c = "blockchain"
    BY <1>1, FactsGiven
<1>3. /\ \A t : GivenAt(p, t) => MakesTable(s, t)
      /\ \A t, c : Brought(p, t, c) => Brings(s, t, c)
      /\ \A t, c : CameWith(p, t, c) => ComesWith(s, t, c)
  <2>1. AtPlace(p, k, n)
      BY DEF AtPlace
  <2> QED
      BY <2>1, GiversHere
<1>4. p = 5202 => s = IfNeeded(RenameColumn("blockchain", "blockchain_id", "blockchain"))
  <2> SUFFICES ASSUME p = 5202 PROVE s = IfNeeded(RenameColumn("blockchain", "blockchain_id", "blockchain"))
      OBVIOUS
  <2>1. k = 52 /\ n = 2
      OBVIOUS
  <2> QED
      BY <2>1, EachMigration, TableStatements
<1>5. /\ \A t : TableFrom(t) \in Nat
      /\ \A t, c : FromAt(t, c) \in Nat
      /\ \A t : TableUntil(t) \in Nat
      /\ \A t, c : GoneAt(t, c) \in Nat
      /\ \A t, c : NotBefore(t, c) \in Nat /\ \A x : NamedAt(x) \in Nat
  <2>1. \A t : TableFrom(t) \in Nat /\ TableUntil(t) \in Nat
      BY TableFromIs, PositionsAre
  <2>2. \A t, c, v : v = FromAt(t, c) => v \in Nat
      BY FromAtIs DEF Never
  <2>3. \A t, c, v : v = NotBefore(t, c) => v \in Nat
      BY NotBeforeIs
  <2> QED
      BY <2>1, <2>2, <2>3, PositionsAre, NamedFrom
<1>6. CASE Effect(db, new, Inner(s))
  <2>1. /\ NoTableEarly(new, q) /\ TablesStand(new, q, p)
        /\ NoColumnEarly(new, q) /\ ColumnsStand(new, q, p)
        /\ TextsOnly(new, q) /\ NoIndexEarly(new, q)
      BY <1>1, <1>6, CleanKept
  <2>2. ASSUME NEW t, TableFrom(t) = p PROVE t \in new.tables
    <3>1. MakesTable(s, t)
        BY <1>2, <1>3, <2>2
    <3>2. Inner(s) = s
        BY <3>1 DEF MakesTable, Inner
    <3> QED
        BY <3>1, <3>2, <1>6 DEF Effect, TablesStay
  <2>3. ASSUME NEW t, NEW c, FromAt(t, c) = p PROVE HasColumn(new, t, c)
    <3>1. CASE Brings(s, t, c)
      <4>1. Inner(s) = s /\ s.does \in {"add", "rename"}
          BY <3>1 DEF Brings, Inner
      <4> QED
          BY <3>1, <4>1, <1>6 DEF Brings, Effect, ColumnsMade
    <3>2. CASE ComesWith(s, t, c) /\ TableFrom(t) = p
      <4>1. Inner(s) = s /\ s.does = "create" /\ s.table = t /\ c \in Names(s.columns)
          BY <3>2 DEF ComesWith, Inner
      <4>2. t \notin db.tables
          BY <3>2, <1>5 DEF Clean, NoTableEarly
      <4> QED
          BY <4>1, <4>2, <1>6 DEF Effect, ColumnsMade
    <3>3. CASE p = 5202 /\ t = "blockchain" /\ c = "blockchain"
      <4>1. Inner(s) = RenameColumn("blockchain", "blockchain_id", "blockchain")
          BY <1>4, <3>3 DEF Inner, IfNeeded
      <4>2. Inner(s).does = "rename" /\ Inner(s).table = t /\ Inner(s).to = c
          BY <4>1, <3>3 DEF RenameColumn
      <4> QED
          BY <4>2, <1>6 DEF Effect, ColumnsMade
    <3> QED
        BY <1>2, <1>3, <2>3, <3>1, <3>2, <3>3
  <2>4. TablesStand(new, q, q)
      BY <1>1, <1>5, <2>1, <2>2 DEF TablesStand
  <2>5. ColumnsStand(new, q, q)
      BY <1>1, <1>5, <2>1, <2>3 DEF ColumnsStand
  <2> QED
      BY <2>1, <2>4, <2>5 DEF Clean
<1>7. CASE s.does = "ifNeeded" /\ ~Needed(db, s.what) /\ new = db
  <2>1. NoTableEarly(db, q) /\ NoColumnEarly(db, q) /\ NoIndexEarly(db, q)
      BY <1>1, <1>5 DEF Clean, NoTableEarly, NoColumnEarly, NoIndexEarly
  <2>2. p # 4501
    <3>1. p = 4501 => Inner(s) = ChangeColumn("paranet_synced_asset", May({"data_source"}))
        BY <1>1 DEF Tidy
    <3>2. Inner(s).does \in {"add", "remove", "rename", "addIndex"}
        BY <1>7 DEF UpFine, ReadyIfNeeded, Inner
    <3> QED
        BY <3>1, <3>2 DEF ChangeColumn
  <2>3. TextsOnly(db, q)
      BY <1>1, <2>2 DEF Clean, TextsOnly, MayText
  <2>4. \A t : TableFrom(t) # p
      BY <1>2, <1>3, <1>7 DEF MakesTable
  <2>5. TablesStand(db, q, q)
      BY <1>1, <1>5, <2>4 DEF Clean, TablesStand
  <2>6. ASSUME NEW t, NEW c, FromAt(t, c) = p PROVE FALSE
    <3>1. ~Brings(s, t, c) /\ ~ComesWith(s, t, c)
        BY <1>7 DEF Brings, ComesWith
    <3>2. p = 5202
        BY <1>2, <1>3, <2>6, <3>1
    <3>3. s.what = RenameColumn("blockchain", "blockchain_id", "blockchain")
        BY <1>4, <3>2 DEF IfNeeded
    <3>4. "blockchain_id" \notin ColumnsOf(db, "blockchain")
        BY <3>3, <1>7 DEF Needed, RenameColumn
    <3>5. HasColumn(db, "blockchain", "blockchain_id")
        BY <3>2, GroundColumns DEF Clean, ColumnsStand
    <3> QED
        BY <3>4, <3>5, ColumnsOfIs DEF HasColumn
  <2>7. ColumnsStand(db, q, q)
    <3> SUFFICES ASSUME NEW t, NEW c, FromAt(t, c) < q, q <= GoneAt(t, c) PROVE HasColumn(db, t, c)
        BY DEF ColumnsStand
    <3>1. FromAt(t, c) < p /\ p <= GoneAt(t, c)
      <4>1. FromAt(t, c) \in Nat /\ FromAt(t, c) # p /\ GoneAt(t, c) \in Nat
          BY <1>5, <2>6
      <4> QED
          BY <4>1, <1>1
    <3> QED
        BY <3>1 DEF Clean, ColumnsStand
  <2> QED
      BY <1>7, <2>1, <2>3, <2>5, <2>7 DEF Clean
<1> QED
    BY <1>6, <1>7, Applies

LEMMA FactsEarlier ==
    \A db : \A p, q \in Int : Facts(db, p) /\ q <= p => Facts(db, q)
<1> SUFFICES ASSUME NEW db, NEW p \in Int, NEW q \in Int, Facts(db, p), q <= p PROVE Facts(db, q)
    OBVIOUS
<1>1. TablesMade(db, q) /\ ColumnsAdded(db, q) /\ ColumnsGone(db, q)
    BY PositionsAre DEF Facts, TablesMade, ColumnsAdded, ColumnsGone
<1>2. IndexesMade(db, q)
    BY DEF Facts, IndexesMade
<1> QED
    BY <1>1, <1>2 DEF Facts

LEMMA FactsHappen ==
    /\ \A t : MadeAt(t) < Never => Happens(MadeAt(t))
    /\ \A t : TableFrom(t) < Never => Happens(TableFrom(t))
    /\ \A t, c : AddedAt(t, c) < Never => Happens(AddedAt(t, c))
    /\ \A t, c : FromAt(t, c) < Never => Happens(FromAt(t, c))
    /\ \A t, c : GoneAt(t, c) < Never => Happens(GoneAt(t, c))
    /\ \A i \in 1..27 : Happens(4600 + i)
<1>1. Len(DatabaseMigrations[52].up) = 5
    BY EachMigration, TableStatements
<1>2. Happens(5202) /\ Happens(5203)
  <2>1. 5202 = 100 * 52 + 2 /\ 2 \in Nat /\ 2 >= 1 /\ 2 <= Len(DatabaseMigrations[52].up) /\ 52 \in 1..60
      BY <1>1
  <2>2. 5203 = 100 * 52 + 3 /\ 3 \in Nat /\ 3 >= 1 /\ 3 <= Len(DatabaseMigrations[52].up)
      BY <1>1
  <2>3. Happens(5202)
      BY <2>1 DEF Happens
  <2>4. Happens(5203)
      BY <2>1, <2>2 DEF Happens
  <2> QED
      BY <2>3, <2>4
<1>3. \A i \in 1..27 : Happens(4600 + i)
  <2> SUFFICES ASSUME NEW i \in 1..27 PROVE Happens(4600 + i)
      OBVIOUS
  <2>1. i \in Nat /\ i >= 1 /\ i <= Len(DatabaseMigrations[46].up) /\ 4600 + i = 100 * 46 + i
      BY IndexesGiven
  <2> QED
      BY <2>1 DEF Happens
<1>4. \A t, v : v < Never /\ (v = MadeAt(t) \/ v = TableFrom(t)) => Happens(v)
    BY FactsGiven, GiversHappen
<1>5. \A t, c, v : v < Never /\ (v = AddedAt(t, c) \/ v = FromAt(t, c) \/ v = GoneAt(t, c)) => Happens(v)
    BY <1>2, FactsGiven, GiversHappen
<1> QED
    BY <1>3, <1>4, <1>5

(* A migration that is through: the next one finds what it left.             *)
Behind(p, k, n) ==
    k \in 1..60 /\ n \in 1..99 /\ n > Len(DatabaseMigrations[k].up) /\ p = 100 * k + n

LEMMA FactsOn ==
    ASSUME NEW k, NEW n, NEW p, Behind(p, k, n), NEW q, q = 100 * (k + 1) + 1, NEW db
    PROVE  (Facts(db, p) => Facts(db, q)) /\ (Clean(db, p) => Clean(db, q))
<1>0. k \in 1..60 /\ n \in 1..99 /\ n > Len(DatabaseMigrations[k].up) /\ p = 100 * k + n
    BY DEF Behind
<1> DEFINE l == Len(DatabaseMigrations[k].up)
<1>1. l \in Nat /\ l >= 1 /\ n > l
    BY <1>0, LengthsAre
<1>2. \A v : Happens(v) => v \in Nat
    BY DEF Happens
<1>3. \A v : Happens(v) /\ v < q => v < 100 * k + l + 1
    BY <1>0, NothingBetween
<1> HIDE DEF l
<1>4. /\ p \in Nat /\ q \in Nat /\ q <= Never /\ p <= q /\ 100 * k + l + 1 <= p
      /\ 100 * k + 2 <= p
    BY <1>0, <1>1 DEF Never
<1>5. \A v : Happens(v) /\ v < q => v < p
  <2> SUFFICES ASSUME NEW v, Happens(v), v < q PROVE v < p
      OBVIOUS
  <2>1. v \in Nat /\ v < 100 * k + l + 1
      BY <1>2, <1>3
  <2> QED
      BY <2>1, <1>0, <1>1, <1>4
<1>6. \A v \in Nat : v < q => v < Never
    BY <1>4 DEF Never
<1>7. ASSUME Facts(db, p) PROVE Facts(db, q)
  <2>1. \A t : MadeAt(t) < q => MadeAt(t) < p
    <3> SUFFICES ASSUME NEW t, MadeAt(t) < q PROVE MadeAt(t) < p
        OBVIOUS
    <3>1. MadeAt(t) \in Nat
        BY PositionsAre
    <3>2. Happens(MadeAt(t))
        BY <3>1, <1>6, FactsHappen
    <3> QED
        BY <3>2, <1>5
  <2>2. \A t, c : AddedAt(t, c) < q => AddedAt(t, c) < p
    <3> SUFFICES ASSUME NEW t, NEW c, AddedAt(t, c) < q PROVE AddedAt(t, c) < p
        OBVIOUS
    <3>1. AddedAt(t, c) \in Nat
        BY PositionsAre
    <3>2. Happens(AddedAt(t, c))
        BY <3>1, <1>6, FactsHappen
    <3> QED
        BY <3>2, <1>5
  <2>3. \A t, c : GoneAt(t, c) < q => GoneAt(t, c) < p
    <3> SUFFICES ASSUME NEW t, NEW c, GoneAt(t, c) < q PROVE GoneAt(t, c) < p
        OBVIOUS
    <3>1. GoneAt(t, c) \in Nat
        BY PositionsAre
    <3>2. Happens(GoneAt(t, c))
        BY <3>1, <1>6, FactsHappen
    <3> QED
        BY <3>2, <1>5
  <2>4. \A i \in 1..27 : 4600 + i < q => 4600 + i < p
    <3> SUFFICES ASSUME NEW i \in 1..27, 4600 + i < q PROVE 4600 + i < p
        OBVIOUS
    <3>1. Happens(4600 + i)
        BY FactsHappen
    <3> QED
        BY <3>1, <1>5
  <2> QED
      BY <1>7, <2>1, <2>2, <2>3, <2>4 DEF Facts, TablesMade, ColumnsAdded, ColumnsGone, IndexesMade
<1>8. ASSUME Clean(db, p) PROVE Clean(db, q)
  <2>1. \A t : TableFrom(t) \in Nat /\ TableUntil(t) \in Nat
      BY TableFromIs, PositionsAre
  <2>2. \A t, c, v : v = FromAt(t, c) => v \in Nat
      BY FromAtIs DEF Never
  <2>3. \A t, c, v : v = NotBefore(t, c) => v \in Nat
      BY NotBeforeIs
  <2>4. \A t : TableFrom(t) < q => TableFrom(t) < p
    <3> SUFFICES ASSUME NEW t, TableFrom(t) < q PROVE TableFrom(t) < p
        OBVIOUS
    <3>1. TableFrom(t) \in Nat
        BY <2>1
    <3>2. TableFrom(t) < Never
        BY <3>1, <1>6
    <3>3. Happens(TableFrom(t))
        BY <3>2, FactsHappen
    <3> QED
        BY <3>3, <1>5
  <2>5. \A t, c : FromAt(t, c) < q => FromAt(t, c) < p
    <3> SUFFICES ASSUME NEW t, NEW c, FromAt(t, c) < q PROVE FromAt(t, c) < p
        OBVIOUS
    <3>1. Happens(FromAt(t, c))
        BY <2>2, <1>6, FactsHappen
    <3> QED
        BY <3>1, <1>5
  <2>6. NoTableEarly(db, q) /\ NoColumnEarly(db, q) /\ NoIndexEarly(db, q)
      BY <1>4, <1>8, <2>1, <2>3, NamedFrom DEF Clean, NoTableEarly, NoColumnEarly, NoIndexEarly
  <2>7. TablesStand(db, q, q)
      BY <1>4, <1>8, <2>1, <2>4 DEF Clean, TablesStand
  <2>8. ColumnsStand(db, q, q)
      BY <1>4, <1>8, <2>2, <2>5, PositionsAre DEF Clean, ColumnsStand
  <2>9. p <= 4501 => q <= 4501
      BY <1>0, <1>4
  <2>10. TextsOnly(db, q)
      BY <1>8, <2>9 DEF Clean, TextsOnly, MayText
  <2> QED
      BY <2>6, <2>7, <2>8, <2>10 DEF Clean
<1> QED
    BY <1>7, <1>8

-----------------------------------------------------------------------------
(* A statement of a migration that is reverted.                              *)
DownAt(k, n) == k \in 1..60 /\ n \in Nat /\ n >= 1 /\ n <= Len(DatabaseMigrations[k].down)

LEMMA RevertIs ==
    ASSUME NEW k, NEW n, DownAt(k, n)
    PROVE  /\ Orderly(100 * k + 1, Inner(DatabaseMigrations[k].down[n]))
           /\ GoodStatement(DatabaseMigrations[k].down[n])
<1> DEFINE l == Len(DatabaseMigrations[k].down)
           s == DatabaseMigrations[k].down[n]
<1>1. k \in 1..60 /\ n \in Nat /\ n >= 1 /\ n <= l
    BY DEF DownAt
<1>2. AllDown(100 * k + 1, DatabaseMigrations[k].down)
    BY <1>1, EveryMigrationFine DEF MigrationFine
<1>3. AllGood(DatabaseMigrations[k].down)
    BY <1>1, EveryMigrationGood DEF GoodMigration
<1>4. \A i \in 1..l : DownFine(100 * k + 1, DatabaseMigrations[k].down[i])
    BY <1>2 DEF AllDown
<1>5. \A i \in 1..l : GoodStatement(DatabaseMigrations[k].down[i])
    BY <1>3 DEF AllGood
<1>6. l \in Int => n \in 1..l
  <2> HIDE DEF l
  <2> QED
      BY <1>1
<1> HIDE DEF s
<1> QED
    BY <1>4, <1>5, <1>6 DEF DownFine, s

(* The type that data_source was changed from is not taken back while the    *)
(* index is there.                                                           *)
LEMMA DataSourceStays ==
    ASSUME NEW n, DownAt(45, n), NEW db, Indexed(db), Takes(db, DatabaseMigrations[45].down[n]),
           NEW j \in db.indexes
    PROVE  ~IsIndex(j, 4)
<1> DEFINE t == "paranet_synced_asset"
           s == ChangeColumn(t, Text({"data_source"}))
<1>1. DatabaseMigrations[45].down = <<s>>
    BY EachMigration DEF change_data_source_col_type, Migration
<1>2. n = 1 /\ DatabaseMigrations[45].down[n] = s
    BY <1>1 DEF DownAt
<1>3. Accepts(db, s)
    BY <1>2 DEF Takes, ChangeColumn
<1>4. s.does = "change" /\ s.table = t /\ s.columns = Text({"data_source"})
    BY DEF ChangeColumn
<1> HIDE DEF s
<1> SUFFICES ASSUME IsIndex(j, 4) PROVE FALSE
    OBVIOUS
<1>5. /\ NewIndexes[4].table = t /\ NewIndexes[4].on = {"paranet_ual", "data_source"}
    BY NewIndexesIs DEF AddIndex
<1>6. j.table = t /\ j.on = {"paranet_ual", "data_source"}
    BY <1>5 DEF Indexed, IsIndex
<1>7. NoText(j.on, s.columns)
    BY <1>3, <1>4, <1>6 DEF Accepts
<1>8. <<"data_source", {"text"}>> \in s.columns
    BY <1>4 DEF Text
<1> QED
    BY <1>6, <1>7, <1>8 DEF NoText

LEMMA LateDown ==
    ASSUME NEW k, NEW n, DownAt(k, n), NEW db, NEW s, s = DatabaseMigrations[k].down[n],
           NEW here, here = 100 * (k + 1) + 1, World(db, here), Takes(db, s),
           NEW new, Effect(db, new, Inner(s)), NEW p, p = 100 * k + 1, Orderly(p, Inner(s))
    PROVE  LateIn(new, p)
<1> SUFFICES ASSUME NEW j \in new.indexes, IsIndex(j, 4) PROVE p > 4600
    BY DEF LateIn
<1>1. /\ NewIndexes[4].table = "paranet_synced_asset"
      /\ NewIndexes[4].index = "paranet_ual_data_source_index"
    BY NewIndexesIs DEF AddIndex
<1>2. k \in 1..60
    BY DEF DownAt
<1>3. CASE \E i \in db.indexes : SameIndex(Inner(s), i, j)
  <2>1. PICK i \in db.indexes : SameIndex(Inner(s), i, j)
      BY <1>3
  <2>2. i.index = j.index /\ (i.table = j.table \/ (Inner(s).does = "renameTable" /\ j.table = Inner(s).to))
      BY <2>1 DEF SameIndex
  <2>3. Inner(s).does = "renameTable" => Inner(s).to # "paranet_synced_asset"
      BY DEF Orderly, Asking
  <2>4. IsIndex(i, 4)
      BY <2>2, <2>3, <1>1 DEF IsIndex
  <2>5. here > 4600
      BY <2>4 DEF World, LateIn
  <2>6. k # 45
      BY <2>4, DataSourceStays DEF World
  <2> QED
      BY <1>2, <2>5, <2>6
<1>4. CASE Inner(s).does = "addIndex"
           /\ j = [table |-> Inner(s).table, index |-> Inner(s).index, on |-> Inner(s).on]
  <2>1. NewIndexes[4].index = Inner(s).index
      BY <1>4 DEF IsIndex
  <2>2. p = 4604
      BY <2>1, <1>4 DEF Orderly
  <2> QED
      BY <2>2
<1> QED
    BY <1>3, <1>4 DEF Effect, IndexesCome

LEMMA WorldDown ==
    ASSUME NEW k, NEW n, DownAt(k, n), NEW db, NEW s, s = DatabaseMigrations[k].down[n], Intact(db),
           NEW here, here = 100 * (k + 1) + 1, World(db, here), Takes(db, s),
           NEW new, new = AfterStatement(db, s), NEW p, p = 100 * k + 1
    PROVE  World(new, p) /\ (Facts(db, p) => Facts(new, p))
<1>1. k \in 1..60 /\ p \in Int /\ here \in Int /\ here <= p + 100 /\ p <= Never
    BY DEF DownAt, Never
<1>2. Orderly(p, Inner(s)) /\ GoodStatement(s)
    BY RevertIs
<1>3. CASE Effect(db, new, Inner(s))
  <2>1. Based(new) /\ AsksRight(new) /\ Indexed(new)
      BY <1>1, <1>2, <1>3, WorldKept
  <2>2. LateIn(new, p)
      BY <1>2, <1>3, LateDown
  <2>3. Facts(db, p) => Facts(new, p)
      BY <1>1, <1>2, <1>3, FactsKept
  <2> QED
      BY <2>1, <2>2, <2>3 DEF World
<1>4. CASE new = db
  <2>1. LateIn(db, p)
    <3> SUFFICES ASSUME NEW j \in db.indexes, IsIndex(j, 4) PROVE p > 4600
        BY DEF LateIn
    <3>1. here > 4600
        BY DEF World, LateIn
    <3>2. k # 45
        BY DataSourceStays DEF World
    <3> QED
        BY <1>1, <3>1, <3>2
  <2> QED
      BY <2>1, <1>4 DEF World
<1> QED
    BY <1>2, <1>3, <1>4, Applies

-----------------------------------------------------------------------------
(* Where the upgrade is: the next statement, or the one that is reverted      *)
(* last.                                                                      *)
Here ==
    IF upgrade = "up" THEN 100 * (ran + 1) + next
    ELSE IF upgrade = "down" /\ next > 1 THEN 100 * ran + 1 ELSE 100 * (ran + 1) + 1

(* The inductive invariant of what is in the database.                        *)
SchemaIInv ==
    /\ DatabaseIInv /\ halfReverted \in BOOLEAN
    /\ upgrade = "up" => next <= 99
    /\ upgrade = "done" => ran = release
    /\ World(database, Here)
    /\ ~halfReverted => Facts(database, Here)
    /\ databaseFaults = 0 => upgrade # "down" /\ ~halfReverted /\ Clean(database, Here)

LEMMA SchemaNumbers ==
    ASSUME DatabaseIInv
    PROVE  /\ release \in 1..60 /\ Releases \subseteq 1..60 /\ ran \in Nat /\ ran <= release
           /\ next \in Nat /\ next >= 1 /\ databaseFaults \in Nat
           /\ upgrade = "up" => ran + 1 \in 1..60
           /\ upgrade = "down" => ran \in 1..60
           /\ Here \in Nat
<1>1. release \in 1..60 /\ Releases \subseteq 1..60
    BY DatabaseAssumption, EveryMigrationGood DEF DatabaseIInv
<1>2. /\ ran \in Nat /\ ran <= release /\ next \in Nat /\ next >= 1 /\ databaseFaults \in Nat
      /\ upgrade = "up" => ran < release
      /\ upgrade = "down" => ran >= 1
    BY <1>1, DatabaseAssumption DEF DatabaseIInv
<1>3. 100 * (ran + 1) + next \in Nat /\ 100 * ran + 1 \in Nat /\ 100 * (ran + 1) + 1 \in Nat
    BY <1>2
<1>4. Here \in Nat
    BY <1>3 DEF Here
<1> QED
    BY <1>1, <1>2, <1>4

LEMMA WorldLater ==
    \A db : \A p, q \in Int : World(db, p) /\ p <= q => World(db, q)
BY DEF World, LateIn

(* The next statement of a migration that is run is taken, while nothing     *)
(* failed.                                                                    *)
LEMMA StatementFits == SchemaIInv => StatementsFit
<1> SUFFICES ASSUME SchemaIInv, databaseFaults = 0, upgrade = "up", StatementLeft
             PROVE  Takes(database, NextStatement)
    BY DEF StatementsFit
<1> DEFINE k == ran + 1
           n == next
           p == 100 * k + n
           s == DatabaseMigrations[k].up[n]
<1>1. DatabaseIInv
    BY DEF SchemaIInv
<1>2. k \in 1..60 /\ n \in Nat /\ n >= 1 /\ p \in Nat
    BY <1>1, SchemaNumbers
<1>3. n <= Len(DatabaseMigrations[k].up) /\ NextStatement = s
    BY DEF StatementLeft, NextStatement, StatementsOf, CurrentMigration
<1>4. UpFine(p, s) /\ GoodStatement(s)
    BY <1>2, <1>3, StatementIs
<1>5. World(database, p) /\ Facts(database, p) /\ Clean(database, p)
    BY DEF SchemaIInv, Here
<1> HIDE DEF k, n, p, s
<1>6. Takes(database, s)
    BY <1>2, <1>4, <1>5, ReadyTaken DEF UpFine
<1> QED
    BY <1>3, <1>6

LEMMA SchemaRuns ==
    ASSUME SchemaIInv, RunStatement, upgrade = "up", DatabaseIInv'
    PROVE  SchemaIInv'
<1> DEFINE k == ran + 1
           n == next
           p == 100 * k + n
           s == DatabaseMigrations[k].up[n]
<1>1. DatabaseIInv
    BY DEF SchemaIInv
<1>2. k \in 1..60 /\ n \in Nat /\ n >= 1 /\ p \in Nat /\ ran \in Nat /\ p = 100 * k + n
    BY <1>1, SchemaNumbers
<1>3. n <= Len(DatabaseMigrations[k].up) /\ NextStatement = s
    BY DEF RunStatement, StatementLeft, NextStatement, StatementsOf, CurrentMigration
<1>4. UpFine(p, s) /\ GoodStatement(s) /\ n \in 1..98
    BY <1>2, <1>3, StatementIs
<1>5. /\ World(database, p)
      /\ ~halfReverted => Facts(database, p)
      /\ databaseFaults = 0 => ~halfReverted /\ Clean(database, p)
    BY DEF SchemaIInv, Here
<1>6. Takes(database, s) /\ database' = AfterStatement(database, s) /\ Intact(database)
    BY <1>1, <1>3 DEF RunStatement, DatabaseIInv
<1>7. /\ Here' = p + 1 /\ next' <= 99 /\ upgrade' = "up"
      /\ UNCHANGED <<ran, release, halfReverted, databaseFaults>>
    BY <1>2, <1>4 DEF RunStatement, Here
<1>11. s = DatabaseMigrations[k].up[n] /\ AtPlace(p, k, n)
    BY <1>2, <1>4 DEF AtPlace
<1> HIDE DEF k, n, p, s
<1>8. World(database', p + 1)
    BY <1>2, <1>4, <1>5, <1>6, <1>11, WorldUp
<1>9. ~halfReverted => Facts(database', p + 1)
  <2> SUFFICES ASSUME Facts(database, p) PROVE Facts(database', p + 1)
      BY <1>5
  <2> QED
      BY <1>2, <1>4, <1>5, <1>6, <1>11, FactsUp
<1>10. databaseFaults = 0 => Clean(database', p + 1)
  <2> SUFFICES ASSUME Facts(database, p), Clean(database, p) PROVE Clean(database', p + 1)
      BY <1>5
  <2> QED
      BY <1>2, <1>4, <1>5, <1>6, <1>11, CleanUp
<1> QED
    BY <1>5, <1>7, <1>8, <1>9, <1>10 DEF SchemaIInv

LEMMA SchemaReverts ==
    ASSUME SchemaIInv, RunStatement, upgrade = "down", DatabaseIInv'
    PROVE  SchemaIInv'
<1> DEFINE k == ran
           n == next
           p == 100 * k + 1
           here == 100 * (k + 1) + 1
           s == DatabaseMigrations[k].down[n]
<1>1. DatabaseIInv
    BY DEF SchemaIInv
<1>2. /\ k \in 1..60 /\ n \in Nat /\ n >= 1 /\ p \in Nat /\ here \in Nat /\ Here \in Nat
      /\ p = 100 * k + 1 /\ here = 100 * (k + 1) + 1
    BY <1>1, SchemaNumbers
<1>3. n <= Len(DatabaseMigrations[k].down) /\ NextStatement = s
    BY DEF RunStatement, StatementLeft, NextStatement, StatementsOf, CurrentMigration
<1>4. DownAt(k, n)
    BY <1>2, <1>3 DEF DownAt
<1>5. p <= Here /\ Here <= here
    BY <1>2 DEF Here
<1>6. World(database, here) /\ (~halfReverted => Facts(database, p))
    BY <1>2, <1>5, WorldLater, FactsEarlier DEF SchemaIInv
<1>7. Takes(database, s) /\ database' = AfterStatement(database, s) /\ Intact(database)
    BY <1>1, <1>3 DEF RunStatement, DatabaseIInv
<1>8. /\ Here' = p /\ upgrade' = "down" /\ databaseFaults' # 0
      /\ UNCHANGED <<ran, release, halfReverted, databaseFaults>>
    BY <1>2 DEF RunStatement, Here, SchemaIInv
<1>10. s = DatabaseMigrations[k].down[n]
    OBVIOUS
<1> HIDE DEF k, n, p, here, s
<1>9. World(database', p) /\ (~halfReverted => Facts(database', p))
    BY <1>2, <1>4, <1>6, <1>7, <1>10, WorldDown
<1> QED
    BY <1>8, <1>9 DEF SchemaIInv

LEMMA HereNext == DatabaseIInv' => Here' \in Nat
<1> SUFFICES ASSUME DatabaseIInv' PROVE Here' \in Nat
    OBVIOUS
<1>1. ran' \in Nat /\ next' \in Nat
    BY DatabaseAssumption, EveryMigrationGood DEF DatabaseIInv
<1>2. \A m, n \in Nat : 100 * (m + 1) + n \in Nat /\ 100 * m + 1 \in Nat /\ 100 * (m + 1) + 1 \in Nat
    OBVIOUS
<1> QED
    BY <1>1, <1>2 DEF Here

(* A boot that ends otherwise than by a statement: what there is of facts is  *)
(* that of an earlier position.                                               *)
LEMMA SchemaFails ==
    ASSUME SchemaIInv, DatabaseIInv', database' = database, halfReverted' \in BOOLEAN,
           upgrade' \in {"off", "down"}, databaseFaults' # 0, Here > 4600 => Here' > 4600,
           ~halfReverted' => ~halfReverted /\ Here' <= Here
    PROVE  SchemaIInv'
<1>1. Here \in Nat
    BY SchemaNumbers DEF SchemaIInv
<1>2. Here' \in Nat
    BY HereNext
<1>3. World(database', Here')
    BY DEF SchemaIInv, World, LateIn
<1>4. ~halfReverted' => Facts(database', Here')
    BY <1>1, <1>2, FactsEarlier DEF SchemaIInv
<1> QED
    BY <1>3, <1>4 DEF SchemaIInv

LEMMA SchemaRecords ==
    ASSUME SchemaIInv, RecordMigration, DatabaseIInv'
    PROVE  SchemaIInv'
<1> DEFINE k == ran + 1
           n == next
           p == 100 * k + n
           q == 100 * (k + 1) + 1
<1>1. k \in 1..60 /\ n \in Nat /\ n >= 1 /\ p \in Int /\ q \in Int /\ ran \in Nat /\ release \in Nat
    BY SchemaNumbers DEF SchemaIInv, RecordMigration
<1>2. n > Len(DatabaseMigrations[k].up)
  <2> DEFINE l == Len(DatabaseMigrations[k].up)
  <2>1. ~(n <= l)
      BY DEF RecordMigration, StatementLeft, StatementsOf, CurrentMigration
  <2>2. l \in Nat
      BY <1>1, LengthsAre
  <2> HIDE DEF l
  <2>3. n > l
      BY <2>1, <2>2, <1>1
  <2> QED
      BY <2>3 DEF l
<1>3. n \in 1..99
    BY <1>1 DEF SchemaIInv, RecordMigration
<1>4. Here = p /\ Here' = q
    BY <1>1 DEF RecordMigration, Here
<1>5. /\ database' = database /\ halfReverted' = halfReverted /\ databaseFaults' = databaseFaults
      /\ upgrade' # "down" /\ (upgrade' = "up" => next' <= 99) /\ (upgrade' = "done" => ran' = release')
    BY DEF RecordMigration
<1>6. p <= q /\ p = 100 * k + n /\ q = 100 * (k + 1) + 1
    BY <1>1, <1>3
<1>9. Behind(p, k, n)
    BY <1>1, <1>2, <1>3 DEF Behind
<1> HIDE DEF k, n, p, q
<1>7. World(database, q)
    BY <1>1, <1>4, <1>6, WorldLater DEF SchemaIInv
<1>8. (Facts(database, p) => Facts(database, q)) /\ (Clean(database, p) => Clean(database, q))
    BY <1>6, <1>9, FactsOn
<1> QED
    BY <1>4, <1>5, <1>7, <1>8 DEF SchemaIInv

LEMMA SchemaStarts == DatabaseInit => SchemaIInv
<1> SUFFICES ASSUME DatabaseInit PROVE SchemaIInv
    OBVIOUS
<1>1. DatabaseIInv
    BY DatabaseStarts
<1>2. Here = 101 /\ database = NoTables
    BY DEF DatabaseInit, Here
<1>3. World(NoTables, 101)
    BY DEF NoTables, World, Based, AsksRight, Indexed, LateIn
<1>4. Facts(NoTables, 101)
  <2>1. \A t : ~(MadeAt(t) < 101)
    <3>1. \A t, v : v = MadeAt(t) => ~(v < 101)
        BY MadeAtOf DEF Never
    <3> QED
        BY <3>1
  <2>2. \A t, c : ~(AddedAt(t, c) < 101)
    <3>1. \A t, c, v : v = AddedAt(t, c) => ~(v < 101)
        BY AddedAtIs DEF Never
    <3> QED
        BY <3>1
  <2>3. \A i \in 1..27 : ~(4600 + i < 101)
      OBVIOUS
  <2> QED
      BY <2>1, <2>2, <2>3 DEF Facts, TablesMade, ColumnsAdded, ColumnsGone, IndexesMade, NoTables, HasColumn
<1>5. Clean(NoTables, 101)
  <2>1. \A t : ~(TableFrom(t) < 101)
    <3>1. \A t, v : v = MadeAt(t) => ~(v < 101)
        BY MadeAtOf DEF Never
    <3> QED
        BY <3>1, TableFromIs
  <2>2. \A t, c : ~(FromAt(t, c) < 101)
    <3>1. \A t, c, v : v = FromAt(t, c) => ~(v < 101)
        BY FromAtIs DEF Never
    <3> QED
        BY <3>1
  <2> QED
      BY <2>1, <2>2 DEF Clean, NoTableEarly, TablesStand, NoColumnEarly, ColumnsStand, TextsOnly,
                        NoIndexEarly, NoTables, HasColumn
<1> QED
    BY <1>1, <1>2, <1>3, <1>4, <1>5 DEF SchemaIInv, DatabaseInit

LEMMA SchemaStep == SchemaIInv /\ [DatabaseNext]_databaseVars => SchemaIInv'
<1> SUFFICES ASSUME SchemaIInv, [DatabaseNext]_databaseVars PROVE SchemaIInv'
    OBVIOUS
<1>1. DatabaseIInv
    BY DEF SchemaIInv
<1>2. DatabaseIInv'
    BY <1>1, DatabaseStep
<1>3. /\ ran \in Nat /\ next \in Nat /\ next >= 1 /\ databaseFaults \in Nat /\ release \in Nat
      /\ upgrade \in {"off", "up", "down", "done"} /\ halfReverted \in BOOLEAN /\ Here \in Nat
    BY <1>1, SchemaNumbers DEF DatabaseIInv, SchemaIInv
<1>4. DatabaseFault => databaseFaults' # 0
    BY <1>3 DEF DatabaseFault
<1>5. CASE NewRelease
  <2>1. Here' = Here
      BY <1>5 DEF NewRelease, Here
  <2> QED
      BY <2>1, <1>2, <1>5 DEF NewRelease, SchemaIInv
<1>6. CASE UpgradeStarts
  <2>1. Here' = Here
      BY <1>3, <1>6 DEF UpgradeStarts, Here
  <2> QED
      BY <2>1, <1>2, <1>6 DEF UpgradeStarts, SchemaIInv
<1>7. CASE RunStatement
    BY <1>2, <1>7, SchemaRuns, SchemaReverts DEF RunStatement
<1>8. CASE RecordMigration
    BY <1>2, <1>8, SchemaRecords
<1>9. CASE UpgradeFails \/ UpgradeDies
  <2>1. upgrade = "up" /\ next <= 99 /\ Here = 100 * (ran + 1) + next
      BY <1>9 DEF UpgradeFails, UpgradeDies, SchemaIInv, Here
  <2>2. Here' = 100 * (ran + 1) + 1
      BY <1>3, <1>9 DEF UpgradeFails, UpgradeDies, Here
  <2>3. databaseFaults' # 0
      BY <1>3, <1>4, <1>9, <2>1, StatementFits DEF UpgradeFails, UpgradeDies, StatementsFit
  <2>4. Here' <= Here /\ (Here > 4600 => Here' > 4600)
      BY <1>3, <2>1, <2>2
  <2>5. database' = database /\ halfReverted' = halfReverted /\ upgrade' \in {"off", "down"}
      BY <1>9 DEF UpgradeFails, UpgradeDies
  <2> QED
      BY <1>2, <1>3, <2>3, <2>4, <2>5, SchemaFails
<1>10. CASE Reverted
  <2>1. upgrade = "down" /\ databaseFaults # 0 /\ ran \in 1..60
      BY <1>1, <1>10, SchemaNumbers DEF Reverted, SchemaIInv
  <2>2. Here' = 100 * ran + 1
      BY <1>3, <1>10 DEF Reverted, Here
  <2>3. Here = IF next > 1 THEN 100 * ran + 1 ELSE 100 * (ran + 1) + 1
      BY <2>1 DEF Here
  <2>4. next = 1 => ran # 45
    <3>1. DatabaseMigrations[45].down = <<ChangeColumn("paranet_synced_asset", Text({"data_source"}))>>
        BY EachMigration DEF change_data_source_col_type, Migration
    <3>2. ~(next <= Len(DatabaseMigrations[ran].down))
        BY <2>1, <1>10 DEF Reverted, StatementLeft, StatementsOf, CurrentMigration
    <3> QED
        BY <3>1, <3>2
  <2>5. Here' <= Here /\ (Here > 4600 => Here' > 4600)
      BY <1>3, <2>1, <2>2, <2>3, <2>4
  <2>6. /\ database' = database /\ halfReverted' = halfReverted /\ upgrade' \in {"off", "down"}
        /\ databaseFaults' # 0
      BY <1>10, <2>1 DEF Reverted
  <2> QED
      BY <1>2, <1>3, <2>5, <2>6, SchemaFails
<1>11. CASE RevertFails
  <2>1. upgrade = "down" /\ databaseFaults # 0
      BY <1>11 DEF RevertFails, SchemaIInv
  <2>2. Here' = 100 * (ran + 1) + 1
      BY <1>11 DEF RevertFails, Here
  <2>3. Here = IF next > 1 THEN 100 * ran + 1 ELSE 100 * (ran + 1) + 1
      BY <2>1 DEF Here
  <2>4. Here > 4600 => Here' > 4600
      BY <1>3, <2>2, <2>3
  <2>5. halfReverted' = (halfReverted \/ next > 1)
      BY <1>11 DEF RevertFails
  <2>6. ~halfReverted' => ~halfReverted /\ Here' <= Here
    <3>1. ~halfReverted' => ~halfReverted /\ ~(next > 1)
        BY <2>5, Zenon
    <3> QED
        BY <1>3, <2>2, <2>3, <3>1
  <2>7. /\ database' = database /\ halfReverted' \in BOOLEAN /\ upgrade' \in {"off", "down"}
        /\ databaseFaults' # 0
      BY <1>4, <1>11, <2>1, <2>5 DEF RevertFails
  <2> QED
      BY <1>2, <2>4, <2>6, <2>7, SchemaFails
<1>12. CASE UNCHANGED databaseVars
  <2>1. Here' = Here
      BY <1>12 DEF databaseVars, Here
  <2> QED
      BY <2>1, <1>2, <1>12 DEF databaseVars, SchemaIInv
<1> QED
    BY <1>5, <1>6, <1>7, <1>8, <1>9, <1>10, <1>11, <1>12 DEF DatabaseNext

-----------------------------------------------------------------------------
(* What the models name is in the tables as the last migration leaves them,   *)
(* and there is nothing else a row needs a value for.                         *)
Modelled(t, names) ==
    /\ MadeAt(t) < 6101 /\ \A c \in names : c \in BaseOf(t) \/ AddedAt(t, c) < 6101
    /\ \A c \in BaseOf(t) : c # "role_id" => c \in names
    /\ \A c : AddedAt(t, c) < Never => c \in names

LEMMA LateColumns ==
    /\ AddedAt("event", "blockchain_id") < 6101
    /\ AddedAt("missed_paranet_asset", "error_message") < 6101
    /\ AddedAt("paranet_synced_asset", "data_source") < 6101
    /\ AddedAt("commands", "priority") < 6101 /\ AddedAt("commands", "is_blocking") < 6101
    /\ AddedAt("blockchain_event", "blockchain") < 6101
    /\ AddedAt("blockchain_event", "block_number") < 6101
    /\ AddedAt("blockchain_event", "transaction_index") < 6101
    /\ AddedAt("blockchain_event", "log_index") < 6101
    /\ AddedAt("blockchain_event", "contract_address") < 6101
    /\ AddedAt("blockchain", "blockchain") < 6101
    /\ AddedAt("operation_ids", "min_acks_reached") < 6101
BY DEF AddedAt

LEMMA AddedTo ==
    \A t, c : AddedAt(t, c) < Never =>
       \/ t = "event" /\ c = "blockchain_id"
       \/ t = "missed_paranet_asset" /\ c = "error_message"
       \/ t = "paranet_synced_asset" /\ c = "data_source"
       \/ t = "commands" /\ c \in {"priority", "is_blocking"}
       \/ t = "blockchain_event" /\ c \in {"blockchain", "block_number", "transaction_index",
                                           "log_index", "contract_address"}
       \/ t = "blockchain" /\ c = "blockchain"
       \/ t = "operation_ids" /\ c = "min_acks_reached"
<1>1. \A t, c, v : v = AddedAt(t, c) /\ v < Never =>
       \/ t = "event" /\ c = "blockchain_id"
       \/ t = "missed_paranet_asset" /\ c = "error_message"
       \/ t = "paranet_synced_asset" /\ c = "data_source"
       \/ t = "commands" /\ c \in {"priority", "is_blocking"}
       \/ t = "blockchain_event" /\ c \in {"blockchain", "block_number", "transaction_index",
                                           "log_index", "contract_address"}
       \/ t = "blockchain" /\ c = "blockchain"
       \/ t = "operation_ids" /\ c = "min_acks_reached"
    BY AddedAtIs DEF Never
<1> QED
    BY <1>1

LEMMA TablesModelled ==
    /\ Modelled("publish", publish_model)
    /\ Modelled("get", get_model)
    /\ Modelled("update", update_model)
    /\ Modelled("publish_paranet", publish_paranet_model)
    /\ Modelled("ask", ask_model)
    /\ Modelled("finality", finality_model)
    /\ Modelled("publish_response", publish_response_model)
    /\ Modelled("get_response", get_response_model)
    /\ Modelled("update_response", update_response_model)
    /\ Modelled("publish_paranet_response", publish_paranet_response_model)
    /\ Modelled("ask_response", ask_response_model)
    /\ Modelled("finality_response", finality_response_model)
    /\ Modelled("finality_status", finality_status_model)
    /\ Modelled("blockchain_event", blockchain_event_model)
    /\ Modelled("blockchain", blockchain_model)
    /\ Modelled("commands", commands_model)
    /\ Modelled("event", event_model)
    /\ Modelled("missed_paranet_asset", missed_paranet_asset_model)
    /\ Modelled("operation_ids", operation_ids_model)
    /\ Modelled("paranet_synced_asset", paranet_synced_asset_model)
    /\ Modelled("paranet", paranet_model)
    /\ Modelled("shard", shard_model)
    /\ Modelled("token", token_model)
    /\ Modelled("user", user_model)
<1>1. /\ Modelled("publish", publish_model)
      /\ Modelled("get", get_model)
      /\ Modelled("update", update_model)
    BY MadeAtIs, BaseOfIs, AddedTo
    DEF Modelled, Timestamps, publish_model, get_model, update_model
<1>2. /\ Modelled("publish_paranet", publish_paranet_model)
      /\ Modelled("ask", ask_model)
      /\ Modelled("finality", finality_model)
    BY MadeAtIs, BaseOfIs, AddedTo
    DEF Modelled, Timestamps, publish_paranet_model, publish_model, ask_model, finality_model
<1>3. /\ Modelled("publish_response", publish_response_model)
      /\ Modelled("get_response", get_response_model)
    BY MadeAtIs, BaseOfIs, AddedTo
    DEF Modelled, Timestamps, publish_response_model, get_response_model
<1>4. /\ Modelled("update_response", update_response_model)
      /\ Modelled("publish_paranet_response", publish_paranet_response_model)
    BY MadeAtIs, BaseOfIs, AddedTo
    DEF Modelled, Timestamps, update_response_model, publish_response_model, publish_paranet_response_model
<1>5. /\ Modelled("ask_response", ask_response_model)
      /\ Modelled("finality_response", finality_response_model)
    BY MadeAtIs, BaseOfIs, AddedTo
    DEF Modelled, Timestamps, ask_response_model, publish_response_model, finality_response_model
<1>6. Modelled("finality_status", finality_status_model)
    BY MadeAtIs, BaseOfIs, AddedTo
    DEF Modelled, Timestamps, finality_status_model
<1>7. Modelled("blockchain_event", blockchain_event_model)
    BY MadeAtIs, BaseOfIs, AddedTo, LateColumns
    DEF Modelled, Timestamps, blockchain_event_model
<1>8. Modelled("blockchain", blockchain_model)
    BY MadeAtIs, BaseOfIs, AddedTo, LateColumns
    DEF Modelled, Timestamps, blockchain_model
<1>9. Modelled("commands", commands_model)
    BY MadeAtIs, BaseOfIs, AddedTo, LateColumns
    DEF Modelled, Timestamps, commands_model
<1>10. Modelled("event", event_model)
    BY MadeAtIs, BaseOfIs, AddedTo, LateColumns
    DEF Modelled, Timestamps, event_model
<1>11. Modelled("missed_paranet_asset", missed_paranet_asset_model)
    BY MadeAtIs, BaseOfIs, AddedTo, LateColumns
    DEF Modelled, Timestamps, missed_paranet_asset_model
<1>12. Modelled("operation_ids", operation_ids_model)
    BY MadeAtIs, BaseOfIs, AddedTo, LateColumns
    DEF Modelled, Timestamps, operation_ids_model
<1>13. Modelled("paranet_synced_asset", paranet_synced_asset_model)
    BY MadeAtIs, BaseOfIs, AddedTo, LateColumns
    DEF Modelled, Timestamps, paranet_synced_asset_model
<1>14. Modelled("paranet", paranet_model)
    BY MadeAtIs, BaseOfIs, AddedTo
    DEF Modelled, Timestamps, paranet_model
<1>15. Modelled("shard", shard_model)
    BY MadeAtIs, BaseOfIs, AddedTo
    DEF Modelled, Timestamps, shard_model
<1>16. Modelled("token", token_model)
    BY MadeAtIs, BaseOfIs, AddedTo
    DEF Modelled, Timestamps, token_model
<1>17. Modelled("user", user_model)
    BY MadeAtIs, BaseOfIs, AddedTo
    DEF Modelled, Timestamps, user_model
<1> QED
    BY <1>1, <1>2, <1>3, <1>4, <1>5, <1>6, <1>7, <1>8, <1>9, <1>10, <1>11, <1>12, <1>13, <1>14, <1>15, <1>16, <1>17

LEMMA RepositoriesModelled ==
    /\ \A t \in DOMAIN repositories : Modelled(t, repositories[t])
    /\ \A t \in DOMAIN repositories \ NeverWritten : t \in WrittenTables
<1>1. \A t \in DOMAIN repositories : Modelled(t, repositories[t])
    BY TablesModelled DEF repositories
<1>2. \A t \in DOMAIN repositories \ NeverWritten : t \in WrittenTables
    BY DEF repositories, NeverWritten, WrittenTables
<1> QED
    BY <1>1, <1>2

LEMMA AbilitiesAsked ==
    \A t \in DOMAIN abilities_query : MadeAt(t) < 6101 /\ abilities_query[t] \subseteq BaseOf(t)
BY MadeAtIs, BaseOfIs DEF abilities_query

LEMMA SchemaAtEnd ==
    ASSUME SchemaIInv, UpToDate
    PROVE  World(database, 6101) /\ Facts(database, 6101)
<1>1. ran = 60 /\ upgrade = "done" /\ ~halfReverted
    BY EveryMigrationGood DEF SchemaIInv, UpToDate
<1>2. Here = 6101
    BY <1>1 DEF Here
<1> QED
    BY <1>1, <1>2 DEF SchemaIInv

LEMMA ColumnsModelled ==
    ASSUME NEW db, World(db, 6101), Facts(db, 6101)
    PROVE  /\ \A t, names : Modelled(t, names) => names \subseteq ColumnsOf(db, t)
           /\ \A t : MadeAt(t) < 6101 => BaseOf(t) \subseteq ColumnsOf(db, t)
           /\ \A t, names : t \in WrittenTables /\ Modelled(t, names) =>
                 \A x \in db.columns : x[1] = t /\ "value" \in x[3] => x[2] \in names
<1>1. \A t, c : HasColumn(db, t, c) => c \in ColumnsOf(db, t)
    BY ColumnsOfIs DEF HasColumn
<1>2. \A t : MadeAt(t) < 6101 => BaseOf(t) \subseteq ColumnsOf(db, t)
    BY <1>1 DEF Facts, TablesMade, World, Based
<1>3. \A t, c : AddedAt(t, c) < 6101 => c \in ColumnsOf(db, t)
    BY <1>1 DEF Facts, ColumnsAdded
<1>4. \A t, names : Modelled(t, names) => names \subseteq ColumnsOf(db, t)
    BY <1>2, <1>3 DEF Modelled
<1>5. ASSUME NEW t, NEW names, t \in WrittenTables, Modelled(t, names), NEW x \in db.columns,
             x[1] = t, "value" \in x[3]
      PROVE  x[2] \in names
  <2> DEFINE c == x[2]
  <2>1. MayAsk(t, c) /\ HasColumn(db, t, c)
      BY <1>5 DEF World, AsksRight, HasColumn
  <2> HIDE DEF c
  <2>2. CASE c \in BaseOf(t) /\ c # "role_id"
      BY <1>5, <2>2 DEF Modelled, c
  <2>3. CASE AddedAt(t, c) < Never
      BY <1>5, <2>3 DEF Modelled, c
  <2>4. CASE GoneAt(t, c) < Never
    <3>1. \A v : v = GoneAt(t, c) /\ v < Never => v < 6101
        BY GoneAtIs DEF Never
    <3>2. ~HasColumn(db, t, c)
        BY <2>4, <3>1 DEF Facts, ColumnsGone
    <3> QED
        BY <2>1, <3>2
  <2> QED
      BY <1>5, <2>1, <2>2, <2>3, <2>4 DEF MayAsk
<1> QED
    BY <1>2, <1>4, <1>5

(* A node that is through with all migrations has what its models name, and   *)
(* rows can be written by naming nothing else.                                *)
LEMMA SchemaFitsModels == SchemaIInv => ModelsFit
<1> SUFFICES ASSUME SchemaIInv, UpToDate
             PROVE  /\ \A t \in DOMAIN repositories : repositories[t] \subseteq ColumnsOf(database, t)
                    /\ \A t \in DOMAIN abilities_query :
                          abilities_query[t] \subseteq ColumnsOf(database, t)
                    /\ \A t \in DOMAIN repositories \ NeverWritten :
                          {c[2] : c \in {d \in database.columns : d[1] = t /\ "value" \in d[3]}}
                             \subseteq repositories[t]
    BY DEF ModelsFit
<1>1. World(database, 6101) /\ Facts(database, 6101)
    BY SchemaAtEnd
<1>2. \A t \in DOMAIN repositories : repositories[t] \subseteq ColumnsOf(database, t)
    BY <1>1, ColumnsModelled, RepositoriesModelled
<1>3. \A t \in DOMAIN abilities_query : abilities_query[t] \subseteq ColumnsOf(database, t)
    BY <1>1, ColumnsModelled, AbilitiesAsked
<1>4. ASSUME NEW t \in DOMAIN repositories \ NeverWritten,
             NEW d \in database.columns, d[1] = t, "value" \in d[3]
      PROVE  d[2] \in repositories[t]
  <2>1. t \in WrittenTables /\ Modelled(t, repositories[t])
      BY RepositoriesModelled
  <2> QED
      BY <1>1, <1>4, <2>1, ColumnsModelled
<1> QED
    BY <1>2, <1>3, <1>4

(* The indexes are there whose columns are.                                   *)
LEMMA SchemaFitsIndexes == SchemaIInv => IndexesFit
<1> SUFFICES ASSUME SchemaIInv, UpToDate, NEW i \in ToSet(NewIndexes),
                    i.on \subseteq ColumnsOf(database, i.table)
             PROVE  [table |-> i.table, index |-> i.index, on |-> i.on] \in database.indexes
    BY DEF IndexesFit
<1>1. Facts(database, 6101)
    BY SchemaAtEnd
<1>2. PICK n \in 1..28 : i = NewIndexes[n]
    BY NewIndexesIs DEF ToSet
<1>3. n # 28
  <2> SUFFICES ASSUME n = 28 PROVE FALSE
      OBVIOUS
  <2>1. i.table = "blockchain" /\ i.on = {"contract"}
      BY <1>2, NewIndexesIs DEF AddIndex
  <2>2. GoneAt("blockchain", "contract") = 5205
      BY GroundColumns
  <2>3. ~HasColumn(database, "blockchain", "contract")
      BY <1>1, <2>2 DEF Facts, ColumnsGone
  <2>4. "contract" \in ColumnsOf(database, "blockchain")
      BY <2>1
  <2> QED
      BY <2>3, <2>4, ColumnsOfIs DEF HasColumn
<1>4. n \in 1..27 /\ 4600 + n < 6101
    BY <1>3
<1>5. IndexFact(n) \in database.indexes
    BY <1>1, <1>4 DEF Facts, IndexesMade
<1> QED
    BY <1>2, <1>5 DEF IndexFact

LEMMA SchemaIsRight == SchemaIInv => DatabaseInv
BY StatementFits, SchemaFitsModels, SchemaFitsIndexes DEF DatabaseInv

(* Whichever releases are installed and whichever statements fail or process  *)
(* dies: while nothing was disturbed no statement of an upgrade is refused,   *)
(* and a node that gets through one has what its models name, rows that can   *)
(* be written by naming nothing else, and the indexes, unless a revert broke  *)
(* off with statements made, as that of add_indexes_to_tables always does.    *)
THEOREM DatabaseCorrect == DatabaseSpec => []DatabaseInv
BY SchemaIsRight, SchemaStarts, SchemaStep, PTL DEF DatabaseSpec

================================================================================
