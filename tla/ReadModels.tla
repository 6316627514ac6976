---------------------------- MODULE ReadModels ----------------------------
(***************************************************************************)
(* The response models of src/pfsense_mcp/models: one definition per model, *)
(* saying what its from_api demands of an entry and what it withholds.     *)
(*                                                                         *)
(* plain is how from_api reads the keys anyone may see: "required" (every  *)
(* key by subscript, so a missing one is a KeyError), "optional" (every    *)
(* one with a default), "mixed", or "none". identifying is the set of keys *)
(* shown only to a caller who asks for identifying metadata; held says how *)
(* they are read: "required" and "optional" as above and whether or not    *)
(* they are shown, "lazy" only when they are to be shown. parts are the    *)
(* models of the entry's own sub-entries.                                  *)
(***************************************************************************)
EXTENDS FiniteSets

Nested(plain, identifying, held, parts) ==
    [plain |-> plain, identifying |-> identifying, held |-> held, parts |-> parts]
Redacted(plain, identifying, held) == Nested(plain, identifying, held, {})
Plain(plain) == Redacted(plain, {}, "none")

AcmeSettingsModel == Plain("required")
ArpTableEntryModel == Plain("required")
AuthKeyModel == Plain("required")
AvailableInterfaceModel == Redacted("required", {"mac"}, "required")
AvailablePackageModel == Plain("required")
BindAccessListModel == Plain("required")
BindSettingsModel == Plain("required")
BindSyncSettingsModel == Plain("required")
BindViewModel == Plain("required")
BindZoneModel == Plain("mixed")
BindZoneRecordModel == Plain("mixed")
CarpStatusModel == Plain("required")
CertificateRevocationListRevokedCertificateModel == Plain("required")
ConfigHistoryRevisionModel == Plain("required")
CronJobModel == Plain("required")
DefaultGatewayModel == Redacted("none", {"defaultgw4", "defaultgw6"}, "required")
DhcpLeaseModel == Plain("required")
DHCPRelayModel == Redacted("required", {"server"}, "lazy")
DhcpServerModel == Plain("required")
DHCPServerAddressPoolModel == Plain("required")
DHCPServerApplyModel == Plain("required")
DHCPServerCustomOptionModel == Plain("required")
DhcpStaticMappingModel == Plain("required")
DiagnosticsTableModel == Plain("required")
DNSForwarderApplyModel == Plain("required")
DnsForwarderHostOverrideModel == Plain("required")
DnsResolverAccessListModel == Plain("required")
DNSResolverApplyModel == Plain("required")
DnsResolverDomainOverrideModel == Plain("required")
DnsResolverHostOverrideModel == Plain("required")
DnsResolverSettingsModel == Plain("required")
EmailNotificationSettingsModel == Redacted("required", {"fromaddress", "ipaddress", "notifyemailaddress",
    "username"}, "required")
FirewallRuleModel == Redacted("required", {"created_by", "destination", "source", "updated_by"}, "required")
FirewallStateModel == Redacted("required", {"destination", "source"}, "required")
FirewallStatesSizeModel == Plain("required")
FirewallApplyStatusModel == Plain("required")
FirewallAdvancedSettingsModel == Plain("required")
FirewallAliasModel == Redacted("required", {"address", "detail"}, "required")
FirewallNatOneToOneMappingModel == Redacted("required", {"destination", "external", "source"}, "required")
FirewallNatOutboundMappingModel == Redacted("required", {"destination", "source", "target"}, "required")
FirewallNatOutboundModeModel == Plain("required")
FirewallNatPortForwardModel == Redacted("required", {"created_by", "destination", "source", "target",
    "updated_by"}, "required")
FirewallScheduleModel == Plain("required")
FirewallTrafficShaperLimiterModel == Plain("required")
FirewallVirtualIpModel == Redacted("required", {"carp_peer", "subnet"}, "required")
FreeRadiusEapModel == Plain("required")
FreeRADIUSInterfaceModel == Redacted("required", {"addr"}, "lazy")
FreeRADIUSMACModel == Redacted("required", {"framed_ip_address", "framed_ip_netmask", "framed_ipv6_address",
    "framed_ipv6_route", "framed_route", "mac"}, "required")
GatewayConfigModel == Redacted("required", {"gateway", "monitor"}, "required")
GatewayStatusModel == Redacted("required", {"monitorip", "srcip"}, "required")
HAProxyApplyStatusModel == Plain("optional")
HAProxyBackendModel == Plain("mixed")
HAProxyBackendAclModel == Plain("mixed")
HAProxyBackendErrorFileModel == Plain("mixed")
HAProxyBackendServerModel == Plain("mixed")
HAProxyDnsResolverModel == Plain("mixed")
HAProxyEmailMailerModel == Plain("mixed")
HAProxyFileModel == Plain("mixed")
HAProxyFrontendModel == Plain("mixed")
HAProxyFrontendAclModel == Plain("mixed")
HAProxyFrontendAddressModel == Plain("mixed")
HAProxyFrontendCertificateModel == Plain("mixed")
HAProxyFrontendErrorFileModel == Plain("mixed")
HAProxySettingsModel == Plain("optional")
InterfaceApplyModel == Plain("required")
InterfaceBridgeModel == Plain("required")
InterfaceConfigModel == Redacted("required", {"alias_address", "dhcphostname", "gateway", "gatewayv6", "ipaddr",
    "ipaddrv6", "spoofmac", "subnet", "subnetv6"}, "required")
InterfaceGREModel == Redacted("required", {"remote_addr", "tunnel_local_addr", "tunnel_local_addr6",
    "tunnel_remote_addr", "tunnel_remote_addr6", "tunnel_remote_net", "tunnel_remote_net6"}, "required")
InterfaceGroupModel == Plain("required")
InterfaceLAGGModel == Plain("mixed")
InterfaceVlanModel == Plain("required")
InterfaceStatusModel == Redacted("required", {"gateway", "gatewayv6", "ipaddr", "ipaddrv6", "linklocal",
    "macaddr", "subnet", "subnetv6"}, "required")
IPsecApplyModel == Plain("required")
IPsecChildSaStatusModel == Redacted("required", {"local_ts", "remote_ts"}, "required")
IPsecPhase1Model == Redacted("mixed", {"myid_data", "peerid_data", "remote_gateway"}, "optional")
IPsecPhase1EncryptionModel == Plain("required")
IPsecPhase2EncryptionModel == Plain("required")
LogSettingsModel == Plain("required")
NtpSettingsModel == Plain("required")
NtpTimeServerModel == Plain("required")
OpenVPNClientModel == Redacted("mixed", {"proxy_addr", "remote_network", "remote_networkv6", "server_addr",
    "tunnel_network", "tunnel_networkv6"}, "optional")
OpenVpnClientSpecificOverrideModel == Redacted("mixed", {"common_name", "dns_server1", "dns_server2",
    "dns_server3", "dns_server4", "local_network", "local_networkv6", "ntp_server1", "ntp_server2",
    "remote_network", "remote_networkv6", "tunnel_network", "tunnel_networkv6", "wins_server1", "wins_server2"},
    "optional")
OpenVpnClientStatusModel == Redacted("required", {"local_host", "remote_host", "virtual_addr", "virtual_addr6"},
    "required")
OpenVpnServerModel == Redacted("mixed", {"dns_server1", "dns_server2", "dns_server3", "dns_server4",
    "local_network", "local_networkv6", "ntp_server1", "ntp_server2", "remote_network", "remote_networkv6",
    "serverbridge_dhcp_end", "serverbridge_dhcp_start", "tunnel_network", "tunnel_networkv6", "wins_server1",
    "wins_server2"}, "optional")
OpenVpnServerConnectionStatusModel == Redacted("required", {"common_name", "remote_host", "user_name",
    "virtual_addr", "virtual_addr6"}, "required")
OpenVpnServerRouteStatusModel == Redacted("required", {"common_name", "remote_host", "virtual_addr"}, "required")
PfSenseAuthServerModel == Redacted("mixed", {"host", "ldap_authcn", "ldap_basedn", "ldap_binddn",
    "ldap_pam_groupdn"}, "optional")
PfSenseUserModel == Redacted("required", {"authorizedkeys"}, "required")
PfSenseUserGroupModel == Plain("required")
RESTAPIAccessListEntryModel == Redacted("required", {"network"}, "lazy")
RoutingApplyModel == Plain("required")
RoutingGatewayGroupPriorityModel == Redacted("required", {"gateway", "virtual_ip"}, "required")
RoutingStaticRouteModel == Redacted("required", {"gateway", "network"}, "required")
ServiceStatusModel == Plain("required")
ServiceWatchdogModel == Plain("required")
SshSettingsModel == Plain("required")
SystemStatusModel == Redacted("mixed", {"netgate_id"}, "optional")
SystemCertificateModel == Plain("required")
SystemCertificateAuthorityModel == Plain("required")
SystemConsoleModel == Plain("required")
SystemDNSModel == Redacted("required", {"dnsserver"}, "lazy")
SystemHaSyncModel == Redacted("required", {"pfhostid", "username"}, "required")
SystemHostnameModel == Redacted("none", {"domain", "hostname"}, "required")
SystemPackageModel == Plain("required")
SystemRestApiSettingsModel == Redacted("required", {"ha_sync_username"}, "required")
SystemRestApiVersionModel == Plain("mixed")
SystemTimezoneModel == Plain("required")
SystemTunableModel == Plain("required")
SystemVersionModel == Plain("required")
TrafficShaperQueueModel == Plain("mixed")
VirtualIPApplyModel == Plain("required")
WebGUISettingsModel == Plain("required")
WireGuardApplyModel == Plain("required")
WireGuardPeerModel == Redacted("mixed", {"endpoint"}, "optional")
WireGuardPeerStatusModel == Redacted("required", {"allowed_ips", "endpoint"}, "required")
WireGuardSettingsModel == Plain("mixed")
WireGuardTunnelModel == Plain("required")
WireGuardTunnelAddressModel == Redacted("required", {"address", "mask"}, "required")
CertificateRevocationListModel == Nested("mixed", {}, "none", {CertificateRevocationListRevokedCertificateModel})
IPsecPhase2Model == Nested("mixed", {"localid_address", "natlocalid_address", "pinghost", "remoteid_address"},
    "required", {IPsecPhase2EncryptionModel})
IPsecSaStatusModel == Nested("required", {"local_host", "local_id", "remote_host", "remote_id"}, "required",
    {IPsecChildSaStatusModel})
OpenVpnServerStatusModel == Nested("required", {}, "none", {OpenVpnServerConnectionStatusModel,
    OpenVpnServerRouteStatusModel})
RoutingGatewayGroupModel == Nested("required", {}, "none", {RoutingGatewayGroupPriorityModel})
TrafficShaperModel == Nested("required", {}, "none", {TrafficShaperQueueModel})
WireGuardTunnelStatusModel == Nested("required", {}, "none", {WireGuardPeerStatusModel})

-----------------------------------------------------------------------------
(* How an entry of the appliance's answer may differ from what the model    *)
(* was written against.                                                    *)
EntriesOf(model) ==
    {"complete", "mistyped"}
    \cup (IF model.plain \in {"required", "mixed"} THEN {"lacks_required"} ELSE {})
    \cup (IF model.plain \in {"optional", "mixed"} THEN {"lacks_optional"} ELSE {})
    \cup (IF model.identifying # {} THEN {"lacks_identifying"} ELSE {})
    \cup (IF model.parts # {} THEN {"bad_part"} ELSE {})

(* from_api builds the entry, or raises KeyError, TypeError or             *)
(* ValidationError.                                                        *)
FromApi(model, entry, include) ==
    \/ entry \in {"complete", "lacks_optional"}
    \/ entry = "lacks_identifying" /\ model.held = "optional"
    \/ entry = "lacks_identifying" /\ model.held = "lazy" /\ ~include

(* The identifying keys of the entry itself, and of its sub-entries, which  *)
(* are built with the same flag.                                           *)
OwnShown(model, include) == IF include THEN model.identifying ELSE {}
PartsShownAlways(model, include) == UNION {OwnShown(p, TRUE) : p \in model.parts}
PartsShown(model, include) == UNION {OwnShown(p, include) : p \in model.parts}
Shown(model, include) == OwnShown(model, include) \cup PartsShown(model, include)
=============================================================================
