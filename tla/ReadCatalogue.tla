---------------------------- MODULE ReadCatalogue ----------------------------
(***************************************************************************)
(* The tables of the read path: what every client read demands of the      *)
(* appliance's answer, which tools every capability registers, and the     *)
(* names the registry knows. A tool is named without its pfsense_get_      *)
(* prefix; a client read no tool offers has the tool "none".               *)
(***************************************************************************)
EXTENDS ReadModels

(* A read that returns one object, a whole list, or a list cut at a limit. *)
Single(tool, model)  == [tool |-> tool, shape |-> "object", model |-> model, bounded |-> FALSE]
Whole(tool, model)   == [tool |-> tool, shape |-> "list", model |-> model, bounded |-> FALSE]
Bounded(tool, model) == [tool |-> tool, shape |-> "list", model |-> model, bounded |-> TRUE]

MIN_LIMIT == 1
DEFAULT_LIMIT == 100
MAX_LIMIT(tool) ==
    IF tool \in {"firewall_states", "firewall_aliases", "firewall_nat_port_forwards",
                 "firewall_nat_outbound_mappings", "firewall_nat_one_to_one_mappings"}
    THEN 500 ELSE 100

ClientReads1 ==
    { Single("system_status", SystemStatusModel), Whole("interfaces", InterfaceStatusModel),
      Whole("gateways", GatewayConfigModel), Whole("gateway_status", GatewayStatusModel),
      Whole("firewall_rules", FirewallRuleModel), Bounded("firewall_states", FirewallStateModel),
      Single("firewall_states_size", FirewallStatesSizeModel),
      Single("firewall_apply_status", FirewallApplyStatusModel), Bounded("firewall_aliases", FirewallAliasModel),
      Bounded("service_status", ServiceStatusModel), Single("system_version", SystemVersionModel),
      Bounded("interface_configs", InterfaceConfigModel),
      Bounded("firewall_nat_port_forwards", FirewallNatPortForwardModel),
      Single("firewall_nat_outbound_mode", FirewallNatOutboundModeModel),
      Bounded("firewall_nat_outbound_mappings", FirewallNatOutboundMappingModel) }

ClientReads2 ==
    { Bounded("firewall_nat_one_to_one_mappings", FirewallNatOneToOneMappingModel),
      Bounded("users", PfSenseUserModel),
      Bounded("diagnostics_config_history_revisions", ConfigHistoryRevisionModel),
      Bounded("system_certificates", SystemCertificateModel), Bounded("user_groups", PfSenseUserGroupModel),
      Bounded("user_auth_servers", PfSenseAuthServerModel), Bounded("dhcp_leases", DhcpLeaseModel),
      Bounded("dhcp_static_mappings", DhcpStaticMappingModel), Bounded("dhcp_servers", DhcpServerModel),
      Bounded("interface_bridges", InterfaceBridgeModel), Single("carp_status", CarpStatusModel),
      Single("system_restapi_settings", SystemRestApiSettingsModel), Single("system_hasync", SystemHaSyncModel),
      Bounded("dns_resolver_host_overrides", DnsResolverHostOverrideModel) }

ClientReads3 ==
    { Single("dns_resolver_settings", DnsResolverSettingsModel), Bounded("arp_table", ArpTableEntryModel),
      Bounded("firewall_traffic_shaper_limiters", FirewallTrafficShaperLimiterModel),
      Single("firewall_advanced_settings", FirewallAdvancedSettingsModel),
      Bounded("system_packages", SystemPackageModel), Bounded("system_tunables", SystemTunableModel),
      Single("email_notification_settings", EmailNotificationSettingsModel),
      Single("bind_settings", BindSettingsModel), Bounded("bind_access_lists", BindAccessListModel),
      Single("bind_sync_settings", BindSyncSettingsModel), Bounded("bind_views", BindViewModel),
      Bounded("bind_zones", BindZoneModel), Single("bind_zone_record", BindZoneRecordModel),
      Single("haproxy_apply_status", HAProxyApplyStatusModel), Bounded("haproxy_backends", HAProxyBackendModel),
      Bounded("haproxy_backend_acls", HAProxyBackendAclModel),
      Bounded("haproxy_backend_errorfiles", HAProxyBackendErrorFileModel),
      Bounded("haproxy_backend_servers", HAProxyBackendServerModel), Bounded("haproxy_files", HAProxyFileModel) }

ClientReads4 ==
    { Bounded("haproxy_frontends", HAProxyFrontendModel),
      Bounded("haproxy_frontend_acls", HAProxyFrontendAclModel),
      Bounded("haproxy_frontend_addresses", HAProxyFrontendAddressModel),
      Bounded("haproxy_frontend_certificates", HAProxyFrontendCertificateModel),
      Bounded("haproxy_frontend_error_files", HAProxyFrontendErrorFileModel),
      Single("haproxy_settings", HAProxySettingsModel), Bounded("haproxy_dns_resolvers", HAProxyDnsResolverModel),
      Bounded("haproxy_email_mailers", HAProxyEmailMailerModel), Single("ntp_settings", NtpSettingsModel),
      Bounded("ntp_time_servers", NtpTimeServerModel), Single("ssh_settings", SshSettingsModel),
      Bounded("cron_jobs", CronJobModel), Single("acme_settings", AcmeSettingsModel),
      Single("freeradius_eap", FreeRadiusEapModel), Bounded("diagnostics_tables", DiagnosticsTableModel),
      Bounded("auth_keys", AuthKeyModel), Bounded("interface_vlans", InterfaceVlanModel),
      Bounded("routing_static_routes", RoutingStaticRouteModel) }

ClientReads5 ==
    { Bounded("interface_groups", InterfaceGroupModel), Bounded("firewall_schedules", FirewallScheduleModel),
      Single("system_restapi_version", SystemRestApiVersionModel),
      Bounded("firewall_virtual_ips", FirewallVirtualIpModel),
      Bounded("system_certificate_authorities", SystemCertificateAuthorityModel),
      Bounded("status_ipsec_sas", IPsecSaStatusModel), Bounded("status_ipsec_child_sas", IPsecChildSaStatusModel),
      Bounded("status_wireguard_tunnels", WireGuardTunnelStatusModel),
      Bounded("status_wireguard_peers", WireGuardPeerStatusModel),
      Bounded("status_openvpn_servers", OpenVpnServerStatusModel) }

ClientReads6 ==
    { Bounded("status_openvpn_clients", OpenVpnClientStatusModel),
      Bounded("status_openvpn_server_connections", OpenVpnServerConnectionStatusModel),
      Bounded("status_openvpn_server_routes", OpenVpnServerRouteStatusModel),
      Bounded("dns_forwarder_host_overrides", DnsForwarderHostOverrideModel),
      Bounded("dns_resolver_domain_overrides", DnsResolverDomainOverrideModel),
      Bounded("dns_resolver_access_lists", DnsResolverAccessListModel),
      Bounded("interface_available_interfaces", AvailableInterfaceModel),
      Bounded("interface_gres", InterfaceGREModel), Bounded("interface_laggs", InterfaceLAGGModel),
      Bounded("routing_gateway_groups", RoutingGatewayGroupModel),
      Single("routing_gateway_default", DefaultGatewayModel) }

ClientReads7 ==
    { Single("dhcp_relay", DHCPRelayModel), Bounded("dhcp_server_address_pools", DHCPServerAddressPoolModel),
      Bounded("dhcp_server_custom_options", DHCPServerCustomOptionModel),
      Single("system_hostname", SystemHostnameModel), Single("system_timezone", SystemTimezoneModel),
      Single("system_dns", SystemDNSModel), Single("system_console", SystemConsoleModel),
      Single("system_webgui_settings", WebGUISettingsModel),
      Bounded("system_restapi_access_list", RESTAPIAccessListEntryModel),
      Bounded("system_crls", CertificateRevocationListModel),
      Bounded("system_package_available", AvailablePackageModel),
      Bounded("firewall_traffic_shapers", TrafficShaperModel), Bounded("none", FreeRADIUSInterfaceModel),
      Bounded("none", FreeRADIUSMACModel), Bounded("services_service_watchdogs", ServiceWatchdogModel) }

ClientReads8 ==
    { Bounded("vpn_ipsec_phase2s", IPsecPhase2Model),
      Bounded("vpn_ipsec_phase1_encryptions", IPsecPhase1EncryptionModel),
      Bounded("vpn_ipsec_phase2_encryptions", IPsecPhase2EncryptionModel),
      Bounded("vpn_openvpn_servers", OpenVpnServerModel),
      Bounded("vpn_openvpn_csos", OpenVpnClientSpecificOverrideModel),
      Single("status_logs_settings", LogSettingsModel),
      Single("firewall_virtual_ip_apply_status", VirtualIPApplyModel),
      Single("interface_apply_status", InterfaceApplyModel), Single("routing_apply_status", RoutingApplyModel),
      Single("dhcp_server_apply_status", DHCPServerApplyModel),
      Single("dns_forwarder_apply_status", DNSForwarderApplyModel),
      Single("dns_resolver_apply_status", DNSResolverApplyModel), Single("ipsec_apply_status", IPsecApplyModel),
      Single("wireguard_apply_status", WireGuardApplyModel),
      Bounded("vpn_wireguard_tunnel_addresses", WireGuardTunnelAddressModel),
      Single("vpn_wireguard_settings", WireGuardSettingsModel),
      Bounded("vpn_wireguard_tunnels", WireGuardTunnelModel) }

ClientReads9 ==
    { Bounded("vpn_wireguard_peers", WireGuardPeerModel), Bounded("vpn_ipsec_phase1s", IPsecPhase1Model),
      Bounded("vpn_openvpn_clients", OpenVPNClientModel) }

Registers1 ==
    { <<"SYSTEM_READ", {"system_status"}>>, <<"INTERFACE_READ", {"interfaces"}>>,
      <<"GATEWAY_READ", {"gateways", "gateway_status"}>>,
      <<"FIREWALL_READ", {"firewall_rules", "firewall_states", "firewall_states_size", "firewall_apply_status"}>>,
      <<"ALIAS_READ", {"firewall_aliases"}>>, <<"SERVICE_READ", {"service_status"}>>,
      <<"SYSTEM_INFO_READ", {"system_version"}>>, <<"INTERFACE_CONFIG_READ", {"interface_configs"}>>,
      <<"FIREWALL_NAT_READ", {"firewall_nat_port_forwards", "firewall_nat_outbound_mode",
        "firewall_nat_outbound_mappings", "firewall_nat_one_to_one_mappings"}>>, <<"USER_READ", {"users"}>>,
      <<"SYSTEM_CERTIFICATE_READ", {"system_certificates"}>>, <<"USER_GROUP_READ", {"user_groups"}>>,
      <<"DHCP_LEASE_READ", {"dhcp_leases"}>>, <<"DHCP_STATIC_MAPPING_READ", {"dhcp_static_mappings"}>>,
      <<"DHCP_SERVER_READ", {"dhcp_servers"}>>, <<"INTERFACE_VIRTUAL_READ", {"interface_bridges"}>>,
      <<"STATUS_CARP_READ", {"carp_status"}>>, <<"SYSTEM_RESTAPI_SETTINGS_READ", {"system_restapi_settings"}>>,
      <<"SYSTEM_HA_SYNC_READ", {"system_hasync"}>>,
      <<"SERVICES_DNS_RESOLVER_READ", {"dns_resolver_host_overrides", "dns_resolver_settings"}>>,
      <<"DIAGNOSTICS_ARP_READ", {"arp_table"}>>,
      <<"FIREWALL_TRAFFIC_SHAPER_READ", {"firewall_traffic_shaper_limiters"}>> }

Registers2 ==
    { <<"FIREWALL_ADVANCED_SETTINGS_READ", {"firewall_advanced_settings"}>>,
      <<"SYSTEM_PACKAGE_READ", {"system_packages"}>>, <<"SYSTEM_TUNABLE_READ", {"system_tunables"}>>,
      <<"SYSTEM_NOTIFICATIONS_READ", {"email_notification_settings"}>>,
      <<"SERVICES_BIND_READ", {"bind_settings", "bind_access_lists", "bind_sync_settings", "bind_views",
        "bind_zones", "bind_zone_record"}>>,
      <<"SERVICES_HAPROXY_READ", {"haproxy_apply_status", "haproxy_backends", "haproxy_backend_acls",
        "haproxy_backend_errorfiles", "haproxy_backend_servers", "haproxy_files", "haproxy_frontends",
        "haproxy_frontend_acls", "haproxy_frontend_addresses", "haproxy_frontend_certificates",
        "haproxy_frontend_error_files", "haproxy_settings", "haproxy_dns_resolvers", "haproxy_email_mailers"}>>,
      <<"SERVICES_NTP_READ", {"ntp_settings", "ntp_time_servers"}>>, <<"SERVICES_SSH_READ", {"ssh_settings"}>>,
      <<"SERVICES_CRON_READ", {"cron_jobs"}>>, <<"SERVICES_ACME_READ", {"acme_settings"}>>,
      <<"SERVICES_FREERADIUS_READ", {"freeradius_eap"}>>, <<"DIAGNOSTICS_TABLES_READ", {"diagnostics_tables"}>>,
      <<"AUTH_KEYS_READ", {"auth_keys"}>> }

Registers3 ==
    { <<"SERVER_INFO_READ", {"pfsense_mcp_info"}>>, <<"INTERFACE_VLAN_READ", {"interface_vlans"}>>,
      <<"ROUTING_STATIC_ROUTE_READ", {"routing_static_routes"}>>, <<"INTERFACE_GROUP_READ", {"interface_groups"}>>,
      <<"FIREWALL_SCHEDULE_READ", {"firewall_schedules"}>>,
      <<"SYSTEM_RESTAPI_VERSION_READ", {"system_restapi_version"}>>,
      <<"FIREWALL_VIRTUAL_IP_READ", {"firewall_virtual_ips"}>>,
      <<"SYSTEM_CERTIFICATE_AUTHORITY_READ", {"system_certificate_authorities"}>>,
      <<"STATUS_IPSEC_SA_READ", {"status_ipsec_sas"}>>,
      <<"STATUS_IPSEC_CHILD_SA_READ", {"status_ipsec_child_sas"}>>,
      <<"STATUS_WIREGUARD_TUNNEL_READ", {"status_wireguard_tunnels"}>>,
      <<"STATUS_WIREGUARD_PEER_READ", {"status_wireguard_peers"}>>,
      <<"STATUS_OPENVPN_SERVER_READ", {"status_openvpn_servers"}>>,
      <<"STATUS_OPENVPN_CLIENT_READ", {"status_openvpn_clients"}>>,
      <<"STATUS_OPENVPN_SERVER_CONNECTION_READ", {"status_openvpn_server_connections"}>>,
      <<"STATUS_OPENVPN_SERVER_ROUTE_READ", {"status_openvpn_server_routes"}>>,
      <<"DNS_FORWARDER_HOST_OVERRIDE_READ", {"dns_forwarder_host_overrides"}>>,
      <<"DNS_RESOLVER_DOMAIN_OVERRIDE_READ", {"dns_resolver_domain_overrides"}>>,
      <<"DNS_RESOLVER_ACCESS_LIST_READ", {"dns_resolver_access_lists"}>>,
      <<"INTERFACE_AVAILABLE_INTERFACE_READ", {"interface_available_interfaces"}>>,
      <<"INTERFACE_GRE_READ", {"interface_gres"}>>, <<"INTERFACE_LAGG_READ", {"interface_laggs"}>>,
      <<"ROUTING_GATEWAY_GROUP_READ", {"routing_gateway_groups"}>>,
      <<"ROUTING_GATEWAY_DEFAULT_READ", {"routing_gateway_default"}>>, <<"DHCP_RELAY_READ", {"dhcp_relay"}>>,
      <<"DHCP_SERVER_ADDRESS_POOL_READ", {"dhcp_server_address_pools"}>> }

Registers4 ==
    { <<"DHCP_SERVER_CUSTOM_OPTION_READ", {"dhcp_server_custom_options"}>>,
      <<"SYSTEM_HOSTNAME_READ", {"system_hostname"}>>, <<"SYSTEM_TIMEZONE_READ", {"system_timezone"}>>,
      <<"SYSTEM_DNS_READ", {"system_dns"}>>, <<"SYSTEM_CONSOLE_READ", {"system_console"}>>,
      <<"SYSTEM_WEBGUI_SETTINGS_READ", {"system_webgui_settings"}>>,
      <<"SYSTEM_RESTAPI_ACCESS_LIST_READ", {"system_restapi_access_list"}>>,
      <<"SYSTEM_CRLS_READ", {"system_crls"}>>, <<"SYSTEM_PACKAGE_AVAILABLE_READ", {"system_package_available"}>>,
      <<"FIREWALL_TRAFFIC_SHAPERS_READ", {"firewall_traffic_shapers"}>>,
      <<"VPN_IPSEC_PHASE2_READ", {"vpn_ipsec_phase2s"}>>,
      <<"VPN_IPSEC_PHASE1_ENCRYPTION_READ", {"vpn_ipsec_phase1_encryptions"}>>,
      <<"VPN_IPSEC_PHASE2_ENCRYPTION_READ", {"vpn_ipsec_phase2_encryptions"}>>,
      <<"VPN_OPENVPN_SERVER_READ", {"vpn_openvpn_servers"}>>, <<"VPN_OPENVPN_CSO_READ", {"vpn_openvpn_csos"}>>,
      <<"DIAGNOSTICS_CONFIG_HISTORY_REVISION_READ", {"diagnostics_config_history_revisions"}>>,
      <<"STATUS_LOGS_SETTINGS_READ", {"status_logs_settings"}>>,
      <<"FIREWALL_VIRTUAL_IP_APPLY_READ", {"firewall_virtual_ip_apply_status"}>>,
      <<"INTERFACE_APPLY_READ", {"interface_apply_status"}>>, <<"ROUTING_APPLY_READ", {"routing_apply_status"}>>,
      <<"DHCP_SERVER_APPLY_READ", {"dhcp_server_apply_status"}>>,
      <<"DNS_FORWARDER_APPLY_READ", {"dns_forwarder_apply_status"}>>,
      <<"DNS_RESOLVER_APPLY_READ", {"dns_resolver_apply_status"}>>,
      <<"VPN_IPSEC_APPLY_READ", {"ipsec_apply_status"}>>,
      <<"VPN_WIREGUARD_APPLY_READ", {"wireguard_apply_status"}>>,
      <<"VPN_WIREGUARD_TUNNEL_ADDRESS_READ", {"vpn_wireguard_tunnel_addresses"}>>,
      <<"VPN_WIREGUARD_SETTINGS_READ", {"vpn_wireguard_settings"}>>,
      <<"SERVICES_SERVICE_WATCHDOG_READ", {"services_service_watchdogs"}>>,
      <<"VPN_WIREGUARD_TUNNELS_READ", {"vpn_wireguard_tunnels"}>>,
      <<"VPN_WIREGUARD_PEERS_READ", {"vpn_wireguard_peers"}>> }

Registers5 ==
    { <<"VPN_IPSEC_PHASE1_READ", {"vpn_ipsec_phase1s"}>>, <<"VPN_OPENVPN_CLIENT_READ", {"vpn_openvpn_clients"}>>,
      <<"USER_AUTH_SERVER_READ", {"user_auth_servers"}>> }

ClientReads ==
    ClientReads1 \cup ClientReads2 \cup ClientReads3 \cup ClientReads4 \cup ClientReads5
    \cup ClientReads6 \cup ClientReads7 \cup ClientReads8 \cup ClientReads9
ReadOf(tool) == CHOOSE r \in ClientReads : r.tool = tool

Registers == Registers1 \cup Registers2 \cup Registers3 \cup Registers4 \cup Registers5

READ_CAPABILITIES ==
    { "SYSTEM_READ", "INTERFACE_READ", "GATEWAY_READ", "FIREWALL_READ", "ALIAS_READ", "SERVICE_READ",
      "SYSTEM_INFO_READ", "INTERFACE_CONFIG_READ", "FIREWALL_NAT_READ", "USER_READ", "SYSTEM_CERTIFICATE_READ",
      "USER_GROUP_READ", "DHCP_LEASE_READ", "DHCP_STATIC_MAPPING_READ", "DHCP_SERVER_READ",
      "INTERFACE_VIRTUAL_READ", "STATUS_CARP_READ", "SYSTEM_RESTAPI_SETTINGS_READ", "SYSTEM_HA_SYNC_READ",
      "SERVICES_DNS_RESOLVER_READ", "DIAGNOSTICS_ARP_READ", "FIREWALL_TRAFFIC_SHAPER_READ",
      "FIREWALL_ADVANCED_SETTINGS_READ", "SYSTEM_PACKAGE_READ", "SYSTEM_TUNABLE_READ",
      "SYSTEM_NOTIFICATIONS_READ", "SERVICES_BIND_READ", "SERVICES_NTP_READ", "SERVICES_SSH_READ",
      "SERVICES_CRON_READ", "SERVICES_ACME_READ", "SERVICES_FREERADIUS_READ", "DIAGNOSTICS_TABLES_READ",
      "AUTH_KEYS_READ", "SERVER_INFO_READ", "INTERFACE_VLAN_READ", "ROUTING_STATIC_ROUTE_READ",
      "INTERFACE_GROUP_READ", "FIREWALL_SCHEDULE_READ", "SYSTEM_RESTAPI_VERSION_READ",
      "FIREWALL_VIRTUAL_IP_READ", "SYSTEM_CERTIFICATE_AUTHORITY_READ", "STATUS_IPSEC_SA_READ",
      "STATUS_IPSEC_CHILD_SA_READ", "STATUS_WIREGUARD_TUNNEL_READ", "STATUS_WIREGUARD_PEER_READ",
      "STATUS_OPENVPN_SERVER_READ", "STATUS_OPENVPN_CLIENT_READ", "STATUS_OPENVPN_SERVER_CONNECTION_READ",
      "STATUS_OPENVPN_SERVER_ROUTE_READ", "DNS_FORWARDER_HOST_OVERRIDE_READ",
      "DNS_RESOLVER_DOMAIN_OVERRIDE_READ", "DNS_RESOLVER_ACCESS_LIST_READ", "INTERFACE_AVAILABLE_INTERFACE_READ",
      "INTERFACE_GRE_READ", "INTERFACE_LAGG_READ", "ROUTING_GATEWAY_GROUP_READ", "ROUTING_GATEWAY_DEFAULT_READ",
      "DHCP_RELAY_READ", "DHCP_SERVER_ADDRESS_POOL_READ", "DHCP_SERVER_CUSTOM_OPTION_READ",
      "SYSTEM_HOSTNAME_READ", "SYSTEM_TIMEZONE_READ", "SYSTEM_DNS_READ", "SYSTEM_CONSOLE_READ",
      "SYSTEM_WEBGUI_SETTINGS_READ", "SYSTEM_RESTAPI_ACCESS_LIST_READ", "SYSTEM_CRLS_READ",
      "SYSTEM_PACKAGE_AVAILABLE_READ", "FIREWALL_TRAFFIC_SHAPERS_READ", "VPN_IPSEC_PHASE2_READ",
      "VPN_IPSEC_PHASE1_ENCRYPTION_READ", "VPN_IPSEC_PHASE2_ENCRYPTION_READ", "VPN_OPENVPN_SERVER_READ",
      "VPN_OPENVPN_CSO_READ", "DIAGNOSTICS_CONFIG_HISTORY_REVISION_READ", "STATUS_LOGS_SETTINGS_READ",
      "FIREWALL_VIRTUAL_IP_APPLY_READ", "INTERFACE_APPLY_READ", "ROUTING_APPLY_READ", "DHCP_SERVER_APPLY_READ",
      "DNS_FORWARDER_APPLY_READ", "DNS_RESOLVER_APPLY_READ", "VPN_IPSEC_APPLY_READ", "VPN_WIREGUARD_APPLY_READ",
      "VPN_WIREGUARD_TUNNEL_ADDRESS_READ", "VPN_WIREGUARD_SETTINGS_READ", "SERVICES_HAPROXY_READ",
      "SERVICES_SERVICE_WATCHDOG_READ", "VPN_WIREGUARD_TUNNELS_READ", "VPN_WIREGUARD_PEERS_READ",
      "VPN_IPSEC_PHASE1_READ", "VPN_OPENVPN_CLIENT_READ", "USER_AUTH_SERVER_READ" }

KNOWN_READ_TOOL_NAMES ==
    { "acme_settings", "arp_table", "auth_keys", "bind_access_lists", "bind_settings", "bind_sync_settings",
      "bind_views", "bind_zone_record", "bind_zones", "carp_status", "cron_jobs", "dhcp_leases", "dhcp_relay",
      "dhcp_server_address_pools", "dhcp_server_apply_status", "dhcp_server_custom_options", "dhcp_servers",
      "dhcp_static_mappings", "diagnostics_config_history_revisions", "diagnostics_tables",
      "dns_forwarder_apply_status", "dns_forwarder_host_overrides", "dns_resolver_access_lists",
      "dns_resolver_apply_status", "dns_resolver_domain_overrides", "dns_resolver_host_overrides",
      "dns_resolver_settings", "email_notification_settings", "firewall_advanced_settings", "firewall_aliases",
      "firewall_apply_status", "firewall_nat_one_to_one_mappings", "firewall_nat_outbound_mappings",
      "firewall_nat_outbound_mode", "firewall_nat_port_forwards", "firewall_rules", "firewall_schedules",
      "firewall_states", "firewall_states_size", "firewall_traffic_shaper_limiters", "firewall_traffic_shapers",
      "firewall_virtual_ip_apply_status", "firewall_virtual_ips", "freeradius_eap", "gateway_status", "gateways",
      "haproxy_apply_status", "haproxy_backend_acls", "haproxy_backend_errorfiles", "haproxy_backend_servers",
      "haproxy_backends", "haproxy_dns_resolvers", "haproxy_email_mailers", "haproxy_files",
      "haproxy_frontend_acls", "haproxy_frontend_addresses", "haproxy_frontend_certificates",
      "haproxy_frontend_error_files", "haproxy_frontends", "haproxy_settings", "interface_apply_status",
      "interface_available_interfaces", "interface_bridges", "interface_configs", "interface_gres",
      "interface_groups", "interface_laggs", "interface_vlans", "interfaces", "ipsec_apply_status",
      "ntp_settings", "ntp_time_servers", "routing_apply_status", "routing_gateway_default",
      "routing_gateway_groups", "routing_static_routes", "service_status", "services_service_watchdogs",
      "ssh_settings", "status_ipsec_child_sas", "status_ipsec_sas", "status_logs_settings",
      "status_openvpn_clients", "status_openvpn_server_connections", "status_openvpn_server_routes",
      "status_openvpn_servers", "status_wireguard_peers", "status_wireguard_tunnels",
      "system_certificate_authorities", "system_certificates", "system_console", "system_crls", "system_dns",
      "system_hasync", "system_hostname", "system_package_available", "system_packages",
      "system_restapi_access_list", "system_restapi_settings", "system_restapi_version", "system_status",
      "system_timezone", "system_tunables", "system_version", "system_webgui_settings", "user_auth_servers",
      "user_groups", "users", "vpn_ipsec_phase1_encryptions", "vpn_ipsec_phase1s",
      "vpn_ipsec_phase2_encryptions", "vpn_ipsec_phase2s", "vpn_openvpn_clients", "vpn_openvpn_csos",
      "vpn_openvpn_servers", "vpn_wireguard_peers", "vpn_wireguard_tunnel_addresses", "vpn_wireguard_settings",
      "vpn_wireguard_tunnels", "wireguard_apply_status", "pfsense_mcp_info" }
KNOWN_WRITE_TOOL_NAMES == {"set_firewall_alias_description_v1"}
KNOWN_GUIDANCE_TOOL_NAMES == {"official_guidance", "api_guidance"}
=============================================================================
