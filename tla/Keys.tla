-------------------------------- MODULE Keys --------------------------------
(***************************************************************************)
(* The keys of the response cache: what each method of the CachingClient   *)
(* of src/chic/cache/client.py writes into its key.  A call is a method    *)
(* and its arguments, each argument one value, as the whole of it goes     *)
(* into the key or none.  The hash is taken to be injective.               *)
(***************************************************************************)
EXTENDS Integers, Sequences

\* The arguments of each method, as it hands them to the client.
Signatures == [
    list_products |-> {"opts"}, search_counterparties |-> {"opts"}, account_currency |-> {},
    list_entity_refs |-> {"entity", "opts"}, search_assortment |-> {"opts"}, list_states |-> {"doc_type"},
    get_dashboard |-> {"period"}, profit_by_product |-> {"variant", "opts"},
    profit_by_entity |-> {"dimension", "opts"}, get_turnover |-> {"opts"}, get_stock |-> {"opts"},
    get_counterparty_report |-> {"filters", "limit"},
    get_money_series |-> {"date_from", "date_to", "interval"}, get_stock_by_store |-> {"opts"},
    get_sales_series |-> {"kind", "date_from", "date_to", "interval", "store_id", "organization_id",
                          "project_id"},
    get_audit |-> {"filters", "limit"}, search_documents |-> {"doc_type", "query"},
    get_document |-> {"doc_type", "doc_id", "expand"}]

\* Per method the name and the arguments in its key.  First what lists.
ListKeys == [
    list_products         |-> <<"ListProducts", <<"opts">>>>,
    search_counterparties |-> <<"SearchCounterparties", <<"opts">>>>,
    account_currency      |-> <<"AccountCurrency", <<>>>>,
    list_entity_refs      |-> <<"ListEntityRefs", <<"entity", "opts">>>>,
    search_assortment     |-> <<"SearchAssortment", <<"opts">>>>,
    list_states           |-> <<"ListStates", <<"doc_type">>>>]

\* The arguments of the series of sales, as in its signature.
SalesArguments == <<"kind", "date_from", "date_to", "interval",
                    "store_id", "organization_id", "project_id">>

\* The reports.
ReportKeys == [
    get_dashboard           |-> <<"GetDashboard", <<"period">>>>,
    profit_by_product       |-> <<"ProfitByProduct", <<"variant", "opts">>>>,
    profit_by_entity        |-> <<"ProfitByEntity", <<"dimension", "opts">>>>,
    get_turnover            |-> <<"GetTurnover", <<"opts">>>>,
    get_stock               |-> <<"GetStock", <<"opts">>>>,
    get_counterparty_report |-> <<"GetCounterpartyReport", <<"filters", "limit">>>>,
    get_money_series        |-> <<"GetMoneySeries", <<"date_from", "date_to", "interval">>>>,
    get_stock_by_store      |-> <<"GetStockByStore", <<"opts">>>>,
    get_sales_series        |-> <<"GetSalesSeries", SalesArguments>>,
    get_audit               |-> <<"GetAudit", <<"filters", "limit">>>>]

\* The documents.
DocumentKeys == [
    search_documents |-> <<"SearchDocuments", <<"doc_type", "query">>>>,
    get_document     |-> <<"GetDocument", <<"doc_type", "doc_id", "expand">>>>]

KeyTable ==
    [m \in DOMAIN Signatures |->
        CASE m \in DOMAIN ListKeys     -> ListKeys[m]
          [] m \in DOMAIN ReportKeys   -> ReportKeys[m]
          [] m \in DOMAIN DocumentKeys -> DocumentKeys[m]]

\* Mutant of KeyOf: the filters that may be left out are not in the key.
KeyOfUnfiltered(call) ==
    LET entry == KeyTable[call.method]
    IN  <<entry[1], [i \in DOMAIN entry[2] \cap 1 .. 4 |-> call.arguments[entry[2][i]]]>>

\* _key: the name, and the arguments in the order of the key.
KeyOf(call) ==
    LET entry == KeyTable[call.method]
    IN  <<entry[1], [i \in DOMAIN entry[2] |-> call.arguments[entry[2][i]]]>>
=============================================================================
