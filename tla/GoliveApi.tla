----------------------------- MODULE GoliveApi -----------------------------
(***************************************************************************)
(* The operations of the Golive API, as the generated client of            *)
(* api.gen.go calls them: what NewXRequest puts into a request and which   *)
(* answers ParseXResponse decodes.  The types of the bodies are left out.  *)
(***************************************************************************)
EXTENDS Naturals, Sequences

\* An identifier in a path.
Id == "{id}"

\* Method, path and query parameters: the required ones are values of the
\* parameters, the optional ones pointers that may be nil.
Request(method, path, required, optional) ==
    [method |-> method, path |-> path, required |-> required,
     optional |-> optional, body |-> FALSE]

WithBody(request) == [request EXCEPT !.body = TRUE]

-----------------------------------------------------------------------------
(* Builders: NewXRequest and NewXRequestWithBody *)

PostApplicationRequest == WithBody(Request("POST", <<"application">>, {}, {}))
DeleteApplicationIdRequest == Request("DELETE", <<"application", Id>>, {}, {})
GetApplicationIdRequest == Request("GET", <<"application", Id>>, {}, {})
PutApplicationIdRequest == WithBody(Request("PUT", <<"application", Id>>, {}, {}))
GetApplicationsRequest == Request("GET", <<"applications">>, {}, {"_expand"})
GetCategoriesRequest == Request("GET", <<"categories">>, {}, {})
PostCategoryRequest == WithBody(Request("POST", <<"category">>, {}, {}))
DeleteRequest == Request("DELETE", <<"category", Id>>, {}, {})
GetCategoryIdRequest == Request("GET", <<"category", Id>>, {}, {})
PutCategoryIdRequest == WithBody(Request("PUT", <<"category", Id>>, {}, {}))
GetCustomfieldEnvironmentSelectableRequest ==
    Request("GET", <<"customfield", "environment", "selectable">>, {},
            {"projectKey", "projectId", "customfieldKey", "customfieldName",
            "excludedEnvironmentIds", "excludedOptionIds", "environmentId",
            "environmentName", "applicationName", "applicationId", "categoryName",
            "categoryId", "statusName", "statusId", "permissionSchemeName",
            "permissionSchemeId", "_limit", "_offset", "_sortOrder", "_sortBy",
            "_expand"})
GetCustomfieldEnvironmentSelectedRequest ==
    Request("GET", <<"customfield", "environment", "selected">>, {},
            {"issueKey", "customfieldKey", "customfieldName"})
GetDeploymentRequest ==
    Request("GET", <<"deployment">>, {},
            {"environmentId", "application", "category", "dateTime", "time"})
PutDeploymentRequest ==
    WithBody(Request("PUT", <<"deployment">>, {},
                     {"environmentId", "application", "category", "dateTime", "time"}))
DeleteDeploymentIdRequest == Request("DELETE", <<"deployment", Id>>, {}, {})
GetDeploymentIdRequest == Request("GET", <<"deployment", Id>>, {}, {})
GetDeploymentsRequest ==
    Request("GET", <<"deployments">>, {},
            {"environmentId", "application", "category", "start", "end",
            "maxResults", "expand"})
PostDeploymentsIssueRequest ==
    WithBody(Request("POST", <<"deployments", "issue">>, {},
                     {}))
GetEnvironmentRequest ==
    Request("GET", <<"environment">>, {"application", "category"},
            {})
PostEnvironmentRequest == WithBody(Request("POST", <<"environment">>, {}, {}))
PostEnvironmentCloneRequest ==
    WithBody(Request("POST", <<"environment", "clone">>, {},
                     {}))
PostEnvironmentInformationRequest ==
    WithBody(Request("POST", <<"environment", "information">>, {},
                     {}))
DeleteEnvironmentIdRequest == Request("DELETE", <<"environment", Id>>, {}, {})
GetEnvironmentIdRequest == Request("GET", <<"environment", Id>>, {}, {})
PutEnvironmentIdRequest == WithBody(Request("PUT", <<"environment", Id>>, {}, {}))
GetEnvironmentsSearchRequest ==
    Request("GET", <<"environments", "search">>, {},
            {"applicationName", "applicationId", "categoryName", "categoryId",
            "statusName", "statusId", "permissionSchemeName", "permissionSchemeId",
            "_limit", "_offset", "_sortOrder", "_sortBy", "_expand"})
PostEnvironmentsSearchRequest ==
    WithBody(Request("POST", <<"environments", "search">>, {},
                     {}))
GetEnvironmentsSearchPaginatedRequest ==
    Request("GET", <<"environments", "search", "paginated">>, {},
            {"environmentId", "environmentName", "applicationName", "applicationId",
            "categoryName", "categoryId", "statusName", "statusId",
            "permissionSchemeName", "permissionSchemeId", "panelSchemeId",
            "tierRelation", "_limit", "_offset", "_sortOrder", "_sortBy",
            "_expand"})
PostEnvironmentsSearchPaginatedRequest ==
    WithBody(Request("POST", <<"environments", "search", "paginated">>, {},
                     {}))
PostStatusRequest == WithBody(Request("POST", <<"status">>, {}, {}))
GetStatusChangeRequest ==
    Request("GET", <<"status-change">>, {},
            {"environmentId", "application", "category"})
PutStatusChangeRequest ==
    WithBody(Request("PUT", <<"status-change">>, {},
                     {"environmentId", "application", "category"}))
GetStatusChangesRequest ==
    Request("GET", <<"status-changes">>, {},
            {"environmentId", "application", "category", "start", "end",
            "maxResult", "expand"})
PostStatusChangesRequest == WithBody(Request("POST", <<"status-changes">>, {}, {}))
PutStatusChangesRequest == WithBody(Request("PUT", <<"status-changes">>, {}, {}))
DeleteStatusIdRequest == Request("DELETE", <<"status", Id>>, {}, {})
GetStatusIdRequest == Request("GET", <<"status", Id>>, {}, {})
PutStatusIdRequest == WithBody(Request("PUT", <<"status", Id>>, {}, {}))
GetStatusesRequest == Request("GET", <<"statuses">>, {}, {})
PostVersionRequest == WithBody(Request("POST", <<"version">>, {}, {}))
GetWatcherStatisticsRequest == Request("GET", <<"watcher", "statistics">>, {}, {})
DeleteWatcherUserRequest ==
    Request("DELETE", <<"watcher", "user">>, {"environmentId"},
            {"userName", "userKey"})
GetWatcherUserRequest ==
    Request("GET", <<"watcher", "user">>, {"environmentId"},
            {"userName", "userKey"})
PostWatcherUserRequest ==
    WithBody(Request("POST", <<"watcher", "user">>, {"environmentId"},
                     {"userName", "userKey"}))
PutWatcherUserRequest ==
    WithBody(Request("PUT", <<"watcher", "user">>, {"environmentId"},
                     {"userName", "userKey"}))
-----------------------------------------------------------------------------
(* Decoders: the statuses whose JSON ParseXResponse decodes *)

PostApplicationResponse == {200, 400}
DeleteApplicationIdResponse == {404}
GetApplicationIdResponse == {200, 404}
PutApplicationIdResponse == {200, 400, 404}
GetApplicationsResponse == {200}
GetCategoriesResponse == {200}
PostCategoryResponse == {200, 400}
DeleteResponse == {200, 404}
GetCategoryIdResponse == {200, 404}
PutCategoryIdResponse == {200, 400, 404}
GetCustomfieldEnvironmentSelectableResponse == {200}
GetCustomfieldEnvironmentSelectedResponse == {200}
GetDeploymentResponse == {200, 404}
PutDeploymentResponse == {200, 400}
DeleteDeploymentIdResponse == {200, 404}
GetDeploymentIdResponse == {200, 404}
GetDeploymentsResponse == {200}
PostDeploymentsIssueResponse == {}
GetEnvironmentResponse == {200}
PostEnvironmentResponse == {200}
PostEnvironmentCloneResponse == {200}
PostEnvironmentInformationResponse == {200, 400}
DeleteEnvironmentIdResponse == {200}
GetEnvironmentIdResponse == {200}
PutEnvironmentIdResponse == {200}
GetEnvironmentsSearchResponse == {200}
PostEnvironmentsSearchResponse == {200}
GetEnvironmentsSearchPaginatedResponse == {200}
PostEnvironmentsSearchPaginatedResponse == {200}
PostStatusResponse == {200, 400}
GetStatusChangeResponse == {200, 404}
PutStatusChangeResponse == {200, 400, 404}
GetStatusChangesResponse == {200}
PostStatusChangesResponse == {200, 400}
PutStatusChangesResponse == {200, 400}
DeleteStatusIdResponse == {404}
GetStatusIdResponse == {200, 404}
PutStatusIdResponse == {200, 400, 404}
GetStatusesResponse == {200}
PostVersionResponse == {200, 400}
GetWatcherStatisticsResponse == {200}
DeleteWatcherUserResponse == {}
GetWatcherUserResponse == {200}
PostWatcherUserResponse == {200}
PutWatcherUserResponse == {200}
-----------------------------------------------------------------------------
\* The requests and the answers of all operations, by name.
Requests ==
    [PostApplication |-> PostApplicationRequest,
     DeleteApplicationId |-> DeleteApplicationIdRequest,
     GetApplicationId |-> GetApplicationIdRequest,
     PutApplicationId |-> PutApplicationIdRequest,
     GetApplications |-> GetApplicationsRequest,
     GetCategories |-> GetCategoriesRequest,
     PostCategory |-> PostCategoryRequest,
     Delete |-> DeleteRequest,
     GetCategoryId |-> GetCategoryIdRequest,
     PutCategoryId |-> PutCategoryIdRequest,
     GetCustomfieldEnvironmentSelectable |-> GetCustomfieldEnvironmentSelectableRequest,
     GetCustomfieldEnvironmentSelected |-> GetCustomfieldEnvironmentSelectedRequest,
     GetDeployment |-> GetDeploymentRequest,
     PutDeployment |-> PutDeploymentRequest,
     DeleteDeploymentId |-> DeleteDeploymentIdRequest,
     GetDeploymentId |-> GetDeploymentIdRequest,
     GetDeployments |-> GetDeploymentsRequest,
     PostDeploymentsIssue |-> PostDeploymentsIssueRequest,
     GetEnvironment |-> GetEnvironmentRequest,
     PostEnvironment |-> PostEnvironmentRequest,
     PostEnvironmentClone |-> PostEnvironmentCloneRequest,
     PostEnvironmentInformation |-> PostEnvironmentInformationRequest,
     DeleteEnvironmentId |-> DeleteEnvironmentIdRequest,
     GetEnvironmentId |-> GetEnvironmentIdRequest,
     PutEnvironmentId |-> PutEnvironmentIdRequest,
     GetEnvironmentsSearch |-> GetEnvironmentsSearchRequest,
     PostEnvironmentsSearch |-> PostEnvironmentsSearchRequest,
     GetEnvironmentsSearchPaginated |-> GetEnvironmentsSearchPaginatedRequest,
     PostEnvironmentsSearchPaginated |-> PostEnvironmentsSearchPaginatedRequest,
     PostStatus |-> PostStatusRequest,
     GetStatusChange |-> GetStatusChangeRequest,
     PutStatusChange |-> PutStatusChangeRequest,
     GetStatusChanges |-> GetStatusChangesRequest,
     PostStatusChanges |-> PostStatusChangesRequest,
     PutStatusChanges |-> PutStatusChangesRequest,
     DeleteStatusId |-> DeleteStatusIdRequest,
     GetStatusId |-> GetStatusIdRequest,
     PutStatusId |-> PutStatusIdRequest,
     GetStatuses |-> GetStatusesRequest,
     PostVersion |-> PostVersionRequest,
     GetWatcherStatistics |-> GetWatcherStatisticsRequest,
     DeleteWatcherUser |-> DeleteWatcherUserRequest,
     GetWatcherUser |-> GetWatcherUserRequest,
     PostWatcherUser |-> PostWatcherUserRequest,
     PutWatcherUser |-> PutWatcherUserRequest]

Responses ==
    [PostApplication |-> PostApplicationResponse,
     DeleteApplicationId |-> DeleteApplicationIdResponse,
     GetApplicationId |-> GetApplicationIdResponse,
     PutApplicationId |-> PutApplicationIdResponse,
     GetApplications |-> GetApplicationsResponse,
     GetCategories |-> GetCategoriesResponse,
     PostCategory |-> PostCategoryResponse,
     Delete |-> DeleteResponse,
     GetCategoryId |-> GetCategoryIdResponse,
     PutCategoryId |-> PutCategoryIdResponse,
     GetCustomfieldEnvironmentSelectable |-> GetCustomfieldEnvironmentSelectableResponse,
     GetCustomfieldEnvironmentSelected |-> GetCustomfieldEnvironmentSelectedResponse,
     GetDeployment |-> GetDeploymentResponse,
     PutDeployment |-> PutDeploymentResponse,
     DeleteDeploymentId |-> DeleteDeploymentIdResponse,
     GetDeploymentId |-> GetDeploymentIdResponse,
     GetDeployments |-> GetDeploymentsResponse,
     PostDeploymentsIssue |-> PostDeploymentsIssueResponse,
     GetEnvironment |-> GetEnvironmentResponse,
     PostEnvironment |-> PostEnvironmentResponse,
     PostEnvironmentClone |-> PostEnvironmentCloneResponse,
     PostEnvironmentInformation |-> PostEnvironmentInformationResponse,
     DeleteEnvironmentId |-> DeleteEnvironmentIdResponse,
     GetEnvironmentId |-> GetEnvironmentIdResponse,
     PutEnvironmentId |-> PutEnvironmentIdResponse,
     GetEnvironmentsSearch |-> GetEnvironmentsSearchResponse,
     PostEnvironmentsSearch |-> PostEnvironmentsSearchResponse,
     GetEnvironmentsSearchPaginated |-> GetEnvironmentsSearchPaginatedResponse,
     PostEnvironmentsSearchPaginated |-> PostEnvironmentsSearchPaginatedResponse,
     PostStatus |-> PostStatusResponse,
     GetStatusChange |-> GetStatusChangeResponse,
     PutStatusChange |-> PutStatusChangeResponse,
     GetStatusChanges |-> GetStatusChangesResponse,
     PostStatusChanges |-> PostStatusChangesResponse,
     PutStatusChanges |-> PutStatusChangesResponse,
     DeleteStatusId |-> DeleteStatusIdResponse,
     GetStatusId |-> GetStatusIdResponse,
     PutStatusId |-> PutStatusIdResponse,
     GetStatuses |-> GetStatusesResponse,
     PostVersion |-> PostVersionResponse,
     GetWatcherStatistics |-> GetWatcherStatisticsResponse,
     DeleteWatcherUser |-> DeleteWatcherUserResponse,
     GetWatcherUser |-> GetWatcherUserResponse,
     PostWatcherUser |-> PostWatcherUserResponse,
     PutWatcherUser |-> PutWatcherUserResponse]

Operations == DOMAIN Requests
=============================================================================
